---- MODULE Spec2Model ----
(***************************************************************************)
(* A model of the tile-grid core of the roguelike (src/src/game/core.ts),  *)
(* of the parts of the rot-js library that core.ts calls, and of the turn  *)
(* loop of the game (src/unnamed/part_000): its worlds, doors and turns.   *)
(*                                                                         *)
(* core.ts is translated line by line.  The rot-js classes it instantiates *)
(* (RNG, Map.Digger, FOV.PreciseShadowcasting, Path.AStar) are not part of *)
(* the repository; they are modelled after the rot-js 2.x implementation   *)
(* and each such definition says so in its comment.                        *)
(*                                                                         *)
(* A GameMap is Tile[][]: a sequence of rows, each a sequence of tiles.    *)
(* TLA+ sequences start at 1, so map[y][x] of the code is m[y+1][x+1].     *)
(***************************************************************************)
EXTENDS Integers, Sequences, FiniteSets, TLC

\* ------------------------------------------------------------------ bounds
\* Largest width and height of the maps handed to the query operations.
MaxW == 3
MaxH == 3

VARIABLES
    map,    \* the GameMap the query operations are called on
    call,   \* the last call of a core operation: its name, arguments, result
    agent,  \* the mobile agent that follows aStarNextStep: where it started
            \* and how many steps it has taken
    rng,    \* the state of rot-js's RNG, the one random stream all of core.ts draws from
    draws,  \* how often other code has drawn from the stream
    firstGen, \* the first seeded generateDungeon call of the run and its result
    player,   \* state.player of the game: its tile and its hit points
    enemies,  \* state.enemies of the game, in the order of the array
    gameOver, \* the gameOver flag of the game
    plans,    \* the aStarNextStep calls of the last moveEnemies, in order
    world,    \* state.world: "dungeon", "overworld" or "house"
    door,     \* state.door: null or the door of the world, with its open flag
    houseDoors,    \* state.houseDoors, in the order of the array
    currentHouse,  \* state.currentHouse: null or the tile the house was entered from
    dungeonSave,   \* dungeonSave: null or the dungeon that was left
    overworldSave, \* overworldSave: null or the overworld as it was saved
    items,         \* state.items: the tiles of the potions on the ground
    potion,        \* state.inventory.potion
    inventoryOpen, \* the inventoryOpen flag of the modal
    mapChange,     \* what the last handler did to state.map: "kept" the object,
                   \* "made" a new one or "restored" a saved one
    left           \* the walkable flags and the door flag of the dungeon and of
                   \* the overworld at the moment the player last left each

\* The state of the game loop (src/unnamed/part_000).
game == <<player, enemies, gameOver, plans, world, door, houseDoors, currentHouse,
          dungeonSave, overworldSave, items, potion, inventoryOpen, mapChange, left>>

vars == <<map, call, agent, rng, draws, firstGen, player, enemies, gameOver, plans,
          world, door, houseDoors, currentHouse, dungeonSave, overworldSave,
          items, potion, inventoryOpen, mapChange, left>>

\* ------------------------------------------------------------- the grid map
Tile(wk) == [walkable |-> wk, visible |-> FALSE, explored |-> FALSE]

\* const h = map.length; const w = map[0]?.length ?? 0;
Height(m) == Len(m)
Width(m) == IF Len(m) > 0 THEN Len(m[1]) ELSE 0

\* map[y][x]
TileAt(m, x, y) == m[y + 1][x + 1]

inBounds(w, h, x, y) == x >= 0 /\ y >= 0 /\ x < w /\ y < h

\* canWalk without the test of the tile.
canWalkInBounds(m, x, y) == inBounds(Width(m), Height(m), x, y)

canWalk(m, x, y) ==
    inBounds(Width(m), Height(m), x, y) /\ TileAt(m, x, y).walkable

\* The string `${x},${y}` under which the code stores a position in a Set.
key(x, y) == ToString(x) \o "," \o ToString(y)

\* Every rectangular map of the given size, fresh from a generator as far as
\* visible/explored go, with any walkable layout.
MapsOfSize(w, h) == [1..h -> [1..w -> {Tile(TRUE), Tile(FALSE)}]]

AllMaps == UNION {MapsOfSize(w, h) : w \in 1..MaxW, h \in 1..MaxH}

\* Coordinates an operation may be called with: one cell beyond each edge too.
Xs == -1..MaxW
Ys == -1..MaxH

NoCall == [op |-> "none"]

Pos(x, y) == [x |-> x, y |-> y]

\* A query that marks every tile of the map it reads as visible.
queriedMapMarkingVisible(m) ==
    [y \in 1..Len(m) |-> [x \in 1..Len(m[y]) |-> [m[y][x] EXCEPT !.visible = TRUE]]]

\* The map handed to canWalk, computeVisible, allFloorPositions, sampleFloors,
\* aStarNextStep or reachableFrom as the call leaves it: these functions read
\* map.length, map[0]?.length and map[y][x].walkable and assign nothing.
queriedMap(m) == m

\* ----------------------------------------------------------- reachableFrom
\* A direction list that lost its last entry.
dirsWithoutUp == << <<1, 0>>, <<-1, 0>>, <<0, 1>> >>

\* const dirs = [[1,0],[-1,0],[0,1],[0,-1]];
dirs == << <<1, 0>>, <<-1, 0>>, <<0, 1>>, <<0, -1>> >>

\* const inb = (x, y) => x >= 0 && y >= 0 && x < w && y < h;
inb(m, x, y) == x >= 0 /\ y >= 0 /\ x < Width(m) /\ y < Height(m)

\* for (const d of dirs) { ... }: the neighbours of (x, y), from direction i
\* on; returns the pair <<seen, q>>.
RECURSIVE reachNeighbours(_, _, _, _, _, _)
reachNeighbours(m, x, y, i, seen, q) ==
    IF i > Len(dirs) THEN <<seen, q>>
    ELSE LET nx == x + dirs[i][1]
             ny == y + dirs[i][2]
             k == key(nx, ny)
         IN  IF k \notin seen /\ inb(m, nx, ny) /\ TileAt(m, nx, ny).walkable
             THEN reachNeighbours(m, x, y, i + 1, seen \cup {k}, Append(q, <<nx, ny>>))
             ELSE reachNeighbours(m, x, y, i + 1, seen, q)

\* while (q.length) { const [x, y] = q.shift()!; ... }
RECURSIVE reachLoop(_, _, _)
reachLoop(m, seen, q) ==
    IF q = <<>> THEN seen
    ELSE LET r == reachNeighbours(m, Head(q)[1], Head(q)[2], 1, seen, Tail(q))
         IN  reachLoop(m, r[1], r[2])

reachableFrom(m, sx, sy) ==
    IF ~inb(m, sx, sy) \/ ~TileAt(m, sx, sy).walkable THEN {}
    ELSE reachLoop(m, {key(sx, sy)}, << <<sx, sy>> >>)

\* null of JavaScript: the value aStarNextStep returns for "no step", and a
\* door or a save that is not there.
null == [null |-> TRUE]

\* let state: GameState = { map: [], player: { x: 1, y: 1, hp: 10, maxHp: 10, ... },
\*   enemies: [], items: [], inventory: { potion: 0 }, world: 'dungeon', door: null,
\*   houseDoors: [] };  let gameOver = false;  let inventoryOpen = false;
\* let dungeonSave = null; let overworldSave = null;
\* The game as it is constructed; the core operations never touch it.
NoGame ==
    /\ player = [x |-> 1, y |-> 1, hp |-> 10, maxHp |-> 10]
    /\ enemies = <<>>
    /\ gameOver = FALSE
    /\ plans = <<>>
    /\ world = "dungeon"
    /\ door = null
    /\ houseDoors = <<>>
    /\ currentHouse = null
    /\ dungeonSave = null
    /\ overworldSave = null
    /\ items = <<>>
    /\ potion = 0
    /\ inventoryOpen = FALSE
    /\ mapChange = "kept"
    /\ left = [dungeon |-> null, overworld |-> null]

\* ---------------------------------------------- specification: reachability
\* One behaviour is one call of the operation on one map.
NoAgent == [start |-> Pos(0, 0), steps |-> 0]

\* The query operations draw no random numbers and generate nothing.
NoRng == [s0 |-> <<0, 0>>, s1 |-> <<0, 0>>, s2 |-> <<0, 0>>, c |-> 0]

InitMap ==
    /\ map \in AllMaps
    /\ call = NoCall
    /\ agent = NoAgent
    /\ rng = NoRng
    /\ draws = 0
    /\ firstGen = NoCall
    /\ NoGame

CallReachableFrom ==
    /\ call = NoCall
    /\ \E sx \in Xs, sy \in Ys :
        /\ call' = [op |-> "reachableFrom", x |-> sx, y |-> sy,
                    result |-> reachableFrom(map, sx, sy)]
        /\ map' = queriedMap(map)
        /\ UNCHANGED <<agent, rng, draws, firstGen, game>>

SpecReach == InitMap /\ [][CallReachableFrom]_vars

\* ------------------------------------------------------------ aStarNextStep

\* passable without the test of the blocks.
passableIgnoringBlocks(m, blocks, x, y) ==
    /\ inBounds(Width(m), Height(m), x, y)
    /\ TileAt(m, x, y).walkable

\* passable without the test of the tile.
passableOnAnyTile(m, blocks, x, y) ==
    /\ inBounds(Width(m), Height(m), x, y)
    /\ key(x, y) \notin blocks

\* const passable = (x, y) => inBounds(w, h, x, y) && map[y][x].walkable
\*                            && !blocks.has(`${x},${y}`);
passable(m, blocks, x, y) ==
    /\ inBounds(Width(m), Height(m), x, y)
    /\ TileAt(m, x, y).walkable
    /\ key(x, y) \notin blocks

\* rot-js DIRS[4], the neighbour order of Path with { topology: 4 }.
DIRS4 == << <<0, -1>>, <<1, 0>>, <<0, 1>>, <<-1, 0>> >>

\* rot-js AStar._distance for topology 4: the heuristic is the Manhattan
\* distance to the cell compute() was called with.
astarDistance(fx, fy, x, y) ==
    (IF x >= fx THEN x - fx ELSE fx - x) + (IF y >= fy THEN y - fy ELSE fy - y)

\* rot-js AStar._add: a search node for (x, y) reached from node prev, put
\* into the todo list before the first node with a larger f, or with an equal
\* f and a larger h.  prev is <<>> (null) or the key of a node of the done
\* table: rot-js stores the node object itself, and every node it passes as
\* prev is the one it has just stored in the done table under that key.
\* A todo list that takes the newest node first, whatever its f.
astarInsertNewestFirst(todo, obj, i) == <<obj>> \o todo

RECURSIVE astarInsert(_, _, _)
astarInsert(todo, obj, i) ==
    IF i > Len(todo) THEN Append(todo, obj)
    ELSE LET f == obj.g + obj.h
             itemF == todo[i].g + todo[i].h
         IN  IF f < itemF \/ (f = itemF /\ obj.h < todo[i].h)
             THEN SubSeq(todo, 1, i - 1) \o <<obj>> \o SubSeq(todo, i, Len(todo))
             ELSE astarInsert(todo, obj, i + 1)

astarAdd(todo, done, fx, fy, x, y, prev) ==
    astarInsert(todo,
                [x |-> x, y |-> y, prev |-> prev,
                 g |-> IF prev = <<>> THEN 0 ELSE done[prev[1]].g + 1,
                 h |-> astarDistance(fx, fy, x, y)],
                1)

\* rot-js Path._getNeighbors followed by the loop of AStar.compute over them:
\* a neighbour is skipped when it is not passable or already in done.
RECURSIVE astarNeighbours(_, _, _, _, _, _, _, _)
astarNeighbours(m, blocks, todo, done, fx, fy, item, i) ==
    IF i > Len(DIRS4) THEN todo
    ELSE LET x == item.x + DIRS4[i][1]
             y == item.y + DIRS4[i][2]
         IN  IF passable(m, blocks, x, y) /\ key(x, y) \notin DOMAIN done
             THEN astarNeighbours(m, blocks,
                      astarAdd(todo, done, fx, fy, x, y, <<key(item.x, item.y)>>),
                      done, fx, fy, item, i + 1)
             ELSE astarNeighbours(m, blocks, todo, done, fx, fy, item, i + 1)

\* rot-js AStar.compute, the search: while (this._todo.length) { ... };
\* returns the done table.
RECURSIVE astarSearch(_, _, _, _, _, _)
astarSearch(m, blocks, todo, done, fx, fy) ==
    IF todo = <<>> THEN done
    ELSE LET item == Head(todo)
             id == key(item.x, item.y)
         IN  IF id \in DOMAIN done
             THEN astarSearch(m, blocks, Tail(todo), done, fx, fy)
             ELSE LET done2 == (id :> item) @@ done
                  IN  IF item.x = fx /\ item.y = fy THEN done2
                      ELSE astarSearch(m, blocks,
                               astarNeighbours(m, blocks, Tail(todo), done2, fx, fy, item, 1),
                               done2, fx, fy)

\* rot-js AStar.compute, the report: from the node of (fromX, fromY) along
\* prev to the target; the cells the callback is called with, in order.
RECURSIVE astarTrace(_, _)
astarTrace(done, id) ==
    LET item == done[id]
    IN  <<<<item.x, item.y>>>> \o
        (IF item.prev = <<>> THEN <<>> ELSE astarTrace(done, item.prev[1]))

\* new Path.AStar(to.x, to.y, passable, { topology: 4 });
\* astar.compute(from.x, from.y, (x, y) => path.push([x, y]));
\* The search starts at the target, which rot-js adds without asking passable.
astarPath(m, from, to, blocks) ==
    LET noDone == [k \in {} |-> 0]
        done == astarSearch(m, blocks,
                    astarAdd(<<>>, noDone, from.x, from.y, to.x, to.y, <<>>),
                    noDone, from.x, from.y)
    IN  IF key(from.x, from.y) \in DOMAIN done
        THEN astarTrace(done, key(from.x, from.y))
        ELSE <<>>

\* A test that asks for a path of three cells before it returns a step.
aStarNextStepLongPathsOnly(m, from, to, blocks) ==
    LET path == astarPath(m, from, to, blocks)
    IN  IF Len(path) < 3 THEN null
        ELSE Pos(path[2][1], path[2][2])

\* The step read from path[0], with the test for an empty path.
aStarNextStepFirstCell(m, from, to, blocks) ==
    LET path == astarPath(m, from, to, blocks)
    IN  IF Len(path) < 1 THEN null
        ELSE Pos(path[1][1], path[1][2])

aStarNextStep(m, from, to, blocks) ==
    LET path == astarPath(m, from, to, blocks)
    IN  IF Len(path) < 2 THEN null
        ELSE Pos(path[2][1], path[2][2])

\* A call that leaves the key of `from` in the Set it was handed.
aStarNextStepBlocksWithFrom(m, from, to, blocks) == blocks \cup {key(from.x, from.y)}

\* The Set handed to aStarNextStep as the call leaves it: all the code does
\* with it is blocks.has in passable.
aStarNextStepBlocks(m, from, to, blocks) == blocks

\* A few more blocked cells than none.
MaxBlocks == 1

\* The block sets of a map: at most MaxBlocks keys of cells of the map.
BlockSets(m) ==
    {B \in SUBSET {key(x, y) : x \in 0..(Width(m) - 1), y \in 0..(Height(m) - 1)} :
        Cardinality(B) <= MaxBlocks}

CallAStarNextStep ==
    /\ call = NoCall
    /\ \E blocks \in BlockSets(map),
          fx \in 0..(Width(map) - 1), fy \in 0..(Height(map) - 1),
          tx \in 0..(Width(map) - 1), ty \in 0..(Height(map) - 1) :
        /\ call' = [op |-> "aStarNextStep", from |-> Pos(fx, fy), to |-> Pos(tx, ty),
                    blocks |-> blocks,
                    blocksAfter |-> aStarNextStepBlocks(map, Pos(fx, fy), Pos(tx, ty), blocks),
                    result |-> aStarNextStep(map, Pos(fx, fy), Pos(tx, ty), blocks)]
        /\ agent' = [start |-> Pos(fx, fy), steps |-> 0]
        /\ map' = queriedMap(map)
        /\ UNCHANGED <<rng, draws, firstGen, game>>

SpecPath == InitMap /\ [][CallAStarNextStep]_vars

\* The caller applies the returned position to the agent and, on its next
\* turn, asks again from there: same map, same target, same block set.
AgentFollows ==
    /\ call.op = "aStarNextStep"
    /\ call.result # null
    /\ call' = [call EXCEPT !.from = call.result,
                            !.blocksAfter = aStarNextStepBlocks(map, call.result, call.to, call.blocks),
                            !.result = aStarNextStep(map, call.result, call.to, call.blocks)]
    /\ agent' = [agent EXCEPT !.steps = @ + 1]
    /\ map' = queriedMap(map)
    /\ UNCHANGED <<rng, draws, firstGen, game>>

SpecWalk == InitMap /\ [][CallAStarNextStep \/ AgentFollows]_vars

\* ----------------------------------------------------------- computeVisible
\* Largest radius of a visibility query; larger than the largest map.
MaxRadius == 4

\* const lightPasses = (x, y) => inBounds(w, h, x, y) && map[y][x].walkable;
lightPasses(m, x, y) ==
    inBounds(Width(m), Height(m), x, y) /\ TileAt(m, x, y).walkable

\* rot-js FOV._getCircle for topology 4: the 4r cells at Manhattan distance r
\* from (cx, cy), starting below the centre at (cx, cy + r) and walking the
\* four sides of the diamond with the steps (-1,-1), (1,-1), (1,1), (-1,1).
getCircle(cx, cy, r) ==
    [n \in 1..(4 * r) |->
        LET i == (n - 1) \div r
            j == (n - 1) % r
        IN  CASE i = 0 -> <<cx - j, cy + r - j>>
              [] i = 1 -> <<cx - r + j, cy - j>>
              [] i = 2 -> <<cx + j, cy - r + j>>
              [] OTHER -> <<cx + r - j, cy + j>>]

\* Fractions <<numerator, denominator>>, kept in lowest terms, stand for the
\* floating-point visibility values of rot-js; every value is a quotient of
\* small integers, so that it is zero exactly when its numerator is.
RECURSIVE gcd(_, _)
gcd(a, b) == IF b = 0 THEN a ELSE gcd(b, a % b)

frac(n, d) ==
    LET g == gcd(IF n >= 0 THEN n ELSE -n, IF d >= 0 THEN d ELSE -d)
    IN  IF d < 0 THEN <<(-n) \div g, (-d) \div g>> ELSE <<n \div g, d \div g>>

\* (v1 + v2) / 2
fracMean(v1, v2) == frac(v1[1] * v2[2] + v2[1] * v1[2], 2 * v1[2] * v2[2])

\* visibleLength / arcLength
fracDiv(v1, v2) == frac(v1[1] * v2[2], v1[2] * v2[1])

\* SHADOWS.splice(index, remove, ...added), index counted from 0
splice(S, index, remove, added) ==
    SubSeq(S, 1, index) \o added \o SubSeq(S, index + remove + 1, Len(S))

\* index1: the first shadow >= A1 (SHADOWS.length when there is none)
RECURSIVE shadowIndex1(_, _, _)
shadowIndex1(S, A1, i) ==
    IF i >= Len(S) THEN i
    ELSE IF S[i + 1][1] * A1[2] - A1[1] * S[i + 1][2] >= 0 THEN i
    ELSE shadowIndex1(S, A1, i + 1)

\* index2: the last shadow <= A2 (-1 when there is none)
RECURSIVE shadowIndex2(_, _, _)
shadowIndex2(S, A2, i) ==
    IF i < 0 THEN i
    ELSE IF A2[1] * S[i + 1][2] - S[i + 1][1] * A2[2] >= 0 THEN i
    ELSE shadowIndex2(S, A2, i - 1)

\* rot-js PreciseShadowcasting._checkVisibility for an arc [A1, A2] that does
\* not wrap: <<visibility, SHADOWS after the call>>.
checkArc(A1, A2, blocks, S) ==
    LET index1 == shadowIndex1(S, A1, 0)
        edge1 == /\ index1 < Len(S)
                 /\ S[index1 + 1][1] * A1[2] - A1[1] * S[index1 + 1][2] = 0
                 /\ index1 % 2 = 0
        index2 == shadowIndex2(S, A2, Len(S) - 1)
        edge2 == /\ index2 >= 0
                 /\ A2[1] * S[index2 + 1][2] - S[index2 + 1][1] * A2[2] = 0
                 /\ index2 % 2 = 1
        hidden == \/ index1 = index2 /\ (edge1 \/ edge2)
                  \/ edge1 /\ edge2 /\ index1 + 1 = index2 /\ index2 % 2 = 1
                  \/ index1 > index2 /\ index1 % 2 = 1
        remove == index2 - index1 + 1
        arcLength == frac(A2[1] * A1[2] - A1[1] * A2[2], A1[2] * A2[2])
    IN  IF hidden THEN <<frac(0, 1), S>>
        ELSE IF remove % 2 = 1
        THEN IF index1 % 2 = 1
             THEN \* first edge within existing shadow, second outside
                  LET P == S[index1 + 1]
                  IN  <<fracDiv(frac(A2[1] * P[2] - P[1] * A2[2], P[2] * A2[2]), arcLength),
                        IF blocks THEN splice(S, index1, remove, <<A2>>) ELSE S>>
             ELSE \* second edge within existing shadow, first outside
                  LET P == S[index2 + 1]
                  IN  <<fracDiv(frac(P[1] * A1[2] - A1[1] * P[2], A1[2] * P[2]), arcLength),
                        IF blocks THEN splice(S, index1, remove, <<A1>>) ELSE S>>
        ELSE IF index1 % 2 = 1
             THEN \* both edges within existing shadows
                  LET P1 == S[index1 + 1]
                      P2 == S[index2 + 1]
                  IN  <<fracDiv(frac(P2[1] * P1[2] - P1[1] * P2[2], P1[2] * P2[2]), arcLength),
                        IF blocks THEN splice(S, index1, remove, <<>>) ELSE S>>
             ELSE \* both edges outside existing shadows: whole arc visible
                  <<frac(1, 1), IF blocks THEN splice(S, index1, remove, <<A1, A2>>) ELSE S>>

\* The visibility of a wrapping arc is the mean of those of its two sub-arcs.
meanOfArcs(r1, r2) == <<fracMean(r1[1], r2[1]), r2[2]>>

\* The second sub-arc of a wrapping arc, from the angle 0 to A2, checked on
\* the shadows r1[2] that the first sub-arc has left.
checkSecondArc(A2, blocks, r1) == meanOfArcs(r1, checkArc(<<0, 1>>, A2, blocks, r1[2]))

\* rot-js PreciseShadowcasting._checkVisibility: an arc with A1[0] > A2[0]
\* wraps round the angle 0 and is checked as two sub-arcs, the second on the
\* shadows the first has left.
checkVisibility(A1, A2, blocks, S) ==
    IF A1[1] > A2[1]
    THEN checkSecondArc(A2, blocks, checkArc(A1, <<A1[2], A1[2]>>, blocks, S))
    ELSE checkArc(A1, A2, blocks, S)

\* rot-js PreciseShadowcasting.compute, the inner loop: cell i (from 0) of
\* ring r on; S are the shadows and out the cells the callback has been called
\* with.  The third component says that the cutoff has ended the compute.
\* fovCell is the body of the loop for the cell c = neighbors[i], fovSeen what
\* follows the _checkVisibility call with the result res, and fovCutoff the
\* test that ends the compute.
RECURSIVE fovRing(_, _, _, _, _, _, _)
fovCutoff(m, x, y, r, i, S2, out2) ==
    IF Len(S2) = 2 /\ S2[1][1] = 0 /\ S2[2][1] = S2[2][2]
    THEN <<S2, out2, TRUE>>    \* cutoff: everything is in shadow
    ELSE fovRing(m, x, y, r, i + 1, S2, out2)

fovSeen(m, x, y, r, i, out, c, res) ==
    fovCutoff(m, x, y, r, i, res[2], IF res[1][1] # 0 THEN Append(out, c) ELSE out)

fovCell(m, x, y, r, i, S, out, c) ==
    fovSeen(m, x, y, r, i, out, c,
            checkVisibility(<<IF i # 0 THEN 2 * i - 1 ELSE 2 * (4 * r) - 1, 2 * (4 * r)>>,
                            <<2 * i + 1, 2 * (4 * r)>>,
                            ~lightPasses(m, c[1], c[2]), S))

fovRing(m, x, y, r, i, S, out) ==
    IF i >= 4 * r THEN <<S, out, FALSE>>
    ELSE fovCell(m, x, y, r, i, S, out, getCircle(x, y, r)[i + 1])

\* rot-js PreciseShadowcasting.compute, the outer loop over the rings r..R:
\* fovAfterRing goes on from what ring r has left.
RECURSIVE fovRings(_, _, _, _, _, _, _)
fovAfterRing(m, x, y, R, r, ring) ==
    IF ring[3] THEN ring[2]
    ELSE fovRings(m, x, y, R, r + 1, ring[1], ring[2])

fovRings(m, x, y, R, r, S, out) ==
    IF r > R THEN out
    ELSE fovAfterRing(m, x, y, R, r, fovRing(m, x, y, r, 0, S, out))

\* A compute that returns before the callback when no light passes the origin.
fovComputeDarkOrigin(m, x, y, R) ==
    IF ~lightPasses(m, x, y) THEN <<>>
    ELSE fovRings(m, x, y, R, 1, <<>>, << <<x, y>> >>)

\* new FOV.PreciseShadowcasting(lightPasses, { topology: 4 }) and
\* fov.compute(ox, oy, radius, callback): the cells rot-js calls the callback
\* with, in order.  The origin comes first, whatever lightPasses says of it.
fovCompute(m, x, y, R) ==
    IF ~lightPasses(m, x, y) THEN << <<x, y>> >>
    ELSE fovRings(m, x, y, R, 1, <<>>, << <<x, y>> >>)

\* A callback without the inBounds test.
computeVisibleUnfiltered(m, ox, oy, radius) ==
    LET seenCells == fovCompute(m, ox, oy, radius)
    IN  {key(seenCells[n][1], seenCells[n][2]) : n \in 1..Len(seenCells)}

\* The keys the callback adds for the cells it is called with.
visibleKeys(m, seenCells) ==
    {key(seenCells[n][1], seenCells[n][2]) :
        n \in {k \in 1..Len(seenCells) :
                 inBounds(Width(m), Height(m), seenCells[k][1], seenCells[k][2])}}

\* (x, y) => { if (inBounds(w, h, x, y)) visible.add(`${x},${y}`); }
computeVisible(m, ox, oy, radius) == visibleKeys(m, fovCompute(m, ox, oy, radius))

CallComputeVisible ==
    /\ call = NoCall
    /\ \E ox \in Xs, oy \in Ys, radius \in 0..MaxRadius :
        /\ call' = [op |-> "computeVisible", x |-> ox, y |-> oy, radius |-> radius,
                    result |-> computeVisible(map, ox, oy, radius)]
        /\ map' = queriedMap(map)
        /\ UNCHANGED <<agent, rng, draws, firstGen, game>>

SpecFov == InitMap /\ [][CallComputeVisible]_vars

\* ------------------------------------------------------------- rot-js RNG
\* rot-js's RNG is Alea.  Its state is s0, s1, s2, each a multiple of 2^-32
\* below 1, and the carry c.  Here each of s0, s1, s2 is the integer s * 2^32,
\* written <<high 16 bits, low 16 bits>>: the doubles of the JavaScript are
\* exact on these values, and the arithmetic is done in 16-bit limbs.
Two16 == 256 * 256

\* 60023 * l as <<high, low>> limbs, for 0 <= l < 2^16 (60023 = 234 * 256 + 119)
mul60023(l) ==
    LET q == (234 * l) \div 256
        r == (234 * l) % 256
        rest == (r * 256) + (119 * l)
    IN  <<q + (rest \div Two16), rest % Two16>>

\* seed = (seed * 69069 + 1) >>> 0, on limbs (69069 = 2^16 + 3533)
lcg(p) ==
    LET low == (p[2] * 3533) + 1
    IN  <<((p[1] * 3533) + p[2] + (low \div Two16)) % Two16, low % Two16>>

\* RNG.setSeed(seed), for an integer seed >= 1
setSeed(seed) ==
    LET p0 == <<(seed \div Two16) % Two16, seed % Two16>>     \* seed >>> 0
        p1 == lcg(p0)
        p2 == lcg(p1)
    IN  [s0 |-> p0, s1 |-> p1, s2 |-> p2, c |-> 1]

\* RNG.getUniform(): t = 2091639 * s0 + c * 2^-32; s0 = s1; s1 = s2; c = t | 0;
\* s2 = t - c; return s2.  (2091639 = 31 * 2^16 + 60023.)  The result is
\* [value |-> the number returned, as limbs of value * 2^32, rng |-> the state after].
getUniform(r) ==
    LET h == r.s0[1]
        l == r.s0[2]
        A == mul60023(l)
        B == mul60023(h)
        t0 == A[2] + (r.c % Two16)
        t1 == (31 * l) + B[2] + A[1] + (r.c \div Two16) + (t0 \div Two16)
        t2 == (31 * h) + B[1] + (t1 \div Two16)
        v == <<t1 % Two16, t0 % Two16>>
    IN  [value |-> v, rng |-> [s0 |-> r.s1, s1 |-> r.s2, s2 |-> v, c |-> t2]]

\* Math.floor(u * n) for a number u the RNG returned and an integer 0 <= n < 2^15
floorTimes(u, n) == ((u[1] * n) + ((u[2] * n) \div Two16)) \div Two16

\* RNG.getUniformInt(lowerBound, upperBound), for lowerBound <= upperBound
getUniformInt(r, lb, ub) ==
    LET d == getUniform(r)
    IN  [value |-> floorTimes(d.value, ub - lb + 1) + lb, rng |-> d.rng]

\* ---------------------------------------------------------- generateDungeon
createEmptyMap(w, h) == [y \in 1..h |-> [x \in 1..w |-> Tile(FALSE)]]

\* Features the Digger tries to add after its first room, at most.
MaxFeatures == 2

\* rot-js Digger._firstRoom with Room.createRandomCenter and Room.create:
\* a room of roomWidth [4, 10] by roomHeight [3, 8] cells round the centre of
\* the map, dug without a check that it fits.  Digging writes this._map[x][y]:
\* a column x outside the map is undefined and the write throws a TypeError,
\* a row y outside the map is written beside the grid and never reported.
firstRoom(w, h, r) ==
    LET cx == w \div 2
        cy == h \div 2
        dw == getUniformInt(r, 4, 10)
        dh == getUniformInt(dw.rng, 3, 8)
        ux == getUniform(dh.rng)
        uy == getUniform(ux.rng)
        x1 == cx - floorTimes(ux.value, dw.value)
        y1 == cy - floorTimes(uy.value, dh.value)
        x2 == x1 + dw.value - 1
        y2 == y1 + dh.value - 1
    IN  [thrown |-> x1 < 0 \/ x2 > w - 1,
         floor |-> {c \in (x1..x2) \X (y1..y2) : inBounds(w, h, c[1], c[2])},
         rng |-> uy.rng]

\* The features rot-js's Digger adds after the first room, until a fifth of
\* the interior is dug.  This is a stand-in, not the library's algorithm: each
\* try draws a room size and a corner from the stream and digs the room when
\* it lies inside the border (the library digs no cell of the border either).
\* What the model keeps of the library is that the features only add floor
\* cells, only inside the border, and that they depend on nothing but the
\* stream and the cells dug so far.
RECURSIVE digFeatures(_, _, _, _, _)
digFeatures(w, h, r, floor, tries) ==
    IF tries = 0 THEN [thrown |-> FALSE, floor |-> floor, rng |-> r]
    ELSE LET dw == getUniformInt(r, 4, 10)
             dh == getUniformInt(dw.rng, 3, 8)
             dx == getUniformInt(dh.rng, 1, w - 2)
             dy == getUniformInt(dx.rng, 1, h - 2)
             x2 == dx.value + dw.value - 1
             y2 == dy.value + dh.value - 1
             fits == x2 <= w - 2 /\ y2 <= h - 2
             floor2 == IF fits
                       THEN floor \cup ((dx.value..x2) \X (dy.value..y2))
                       ELSE floor
         IN  IF 5 * Cardinality(floor2) < (w - 2) * (h - 2)
             THEN digFeatures(w, h, dy.rng, floor2, tries - 1)
             ELSE [thrown |-> FALSE, floor |-> floor2, rng |-> dy.rng]

\* Digger.create after the first room: nothing when the room threw, the
\* features otherwise.
digAfter(w, h, room) ==
    IF room.thrown THEN [thrown |-> TRUE, floor |-> {}, rng |-> room.rng]
    ELSE digFeatures(w, h, room.rng, room.floor, MaxFeatures)

\* new ROTMap.Digger(w, h, {...}).create(callback): whether it throws, the
\* cells it reports with value 0, and the stream after it.
diggerCreate(w, h, r) == digAfter(w, h, firstRoom(w, h, r))

\* The cells of floor in the order in which Digger.create reports them to the
\* callback (for x: for y), which is the order of floors.push([x, y]):
\* column x from the top down, then the columns after it.
floorsOfColumn(h, floor, x) ==
    LET ys == {y \in 0..(h - 1) : <<x, y>> \in floor}
    IN  [i \in 1..Cardinality(ys) |->
            <<x, CHOOSE y \in ys : Cardinality({z \in ys : z < y}) = i - 1>>]

RECURSIVE floorsFrom(_, _, _, _)
floorsFrom(w, h, floor, x) ==
    IF x >= w THEN <<>>
    ELSE floorsOfColumn(h, floor, x) \o floorsFrom(w, h, floor, x + 1)

\* The callback of digger.create on the map of createEmptyMap:
\* cell.walkable = value === 0, for every cell.
carve(empty, w, h, floor) ==
    [y \in 1..h |-> [x \in 1..w |->
        [empty[y][x] EXCEPT !.walkable = <<x - 1, y - 1>> \in floor]]]

\* A choice of start that falls back to the corner (0, 0).
chooseStartFromCorner(carved, floors, u) ==
    LET idx == floorTimes(u.value, Len(floors))
        s == IF idx < Len(floors) THEN floors[idx + 1] ELSE <<0, 0>>
    IN  [thrown |-> FALSE, map |-> carved, start |-> Pos(s[1], s[2]), rng |-> u.rng]

\* const idx = Math.floor(RNG.getUniform() * floors.length) || 0;
\* const [sx, sy] = floors[idx] ?? [1, 1];  return { map, start }
\* u is what RNG.getUniform() returned and left.
chooseStart(carved, floors, u) ==
    LET idx == floorTimes(u.value, Len(floors))
        s == IF idx < Len(floors) THEN floors[idx + 1] ELSE <<1, 1>>
    IN  [thrown |-> FALSE, map |-> carved, start |-> Pos(s[1], s[2]), rng |-> u.rng]

\* generateDungeon once the Digger has run: dig is what diggerCreate gave.
generateAfter(w, h, dig) ==
    IF dig.thrown
    THEN [thrown |-> TRUE, map |-> <<>>, start |-> Pos(0, 0), rng |-> dig.rng]
    ELSE chooseStart(carve(createEmptyMap(w, h), w, h, dig.floor),
                     floorsFrom(w, h, dig.floor, 0),
                     getUniform(dig.rng))

\* generateDungeon after its first line, with the stream in state r.  The
\* result says whether the call threw, the map and the start it returned if
\* it did not, and the stream it left.
generateFrom(w, h, r) == generateAfter(w, h, diggerCreate(w, h, r))

\* A generator that never seeds the stream.
generateDungeonNeverSeeding(w, h, seed, r) == generateFrom(w, h, r)

\* generateDungeon(w, h, seed) called when the stream is in state r.  seed is
\* <<>> (undefined) or <<n>>.
\* if (typeof seed === 'number') RNG.setSeed(seed);
generateDungeon(w, h, seed, r) ==
    generateFrom(w, h, IF seed # <<>> THEN setSeed(seed[1]) ELSE r)

\* The sizes the generator is called with: the smallest map, a map smaller
\* than a room, and a size of core.test.ts.
GenSizes == {<<1, 1>>, <<8, 6>>, <<20, 10>>}

\* Seeds of core.test.ts.
Seeds == {123, 555, 999}

\* Draws other code may make from the stream between two generator calls.
MaxDraws == 2

\* rot-js seeds the stream with the time when the module is loaded.
InitGen ==
    /\ map = <<>>
    /\ call = NoCall
    /\ agent = NoAgent
    /\ rng \in {setSeed(n) : n \in Seeds}
    /\ draws = 0
    /\ firstGen = NoCall
    /\ NoGame

\* Other code (sampleFloors, generateOverworld) draws from the stream.
Draw ==
    /\ draws < MaxDraws
    /\ rng' = getUniform(rng).rng
    /\ draws' = draws + 1
    /\ UNCHANGED <<map, call, agent, firstGen, game>>

GenerateDungeonCall(w, h, seed) ==
    \E res \in {generateDungeon(w, h, seed, rng)} :
        \E this \in {[op |-> "generateDungeon", w |-> w, h |-> h, seed |-> seed,
                      thrown |-> res.thrown, map |-> res.map, start |-> res.start,
                      draws |-> draws]} :
            /\ call' = this
            /\ rng' = res.rng
            /\ map' = IF res.thrown THEN map ELSE res.map
            /\ firstGen' = IF firstGen = NoCall /\ seed # <<>> THEN this ELSE firstGen
            /\ UNCHANGED <<agent, game>>

\* generateDungeon(w, h, seed) with a number for the seed
CallGenerateDungeon ==
    \E size \in GenSizes, n \in Seeds :
        /\ GenerateDungeonCall(size[1], size[2], <<n>>)
        /\ UNCHANGED draws

\* generateDungeon(w, h): no seed, the stream goes on from where it is
CallGenerateDungeonUnseeded ==
    /\ draws < MaxDraws
    /\ \E size \in GenSizes :
        /\ GenerateDungeonCall(size[1], size[2], <<>>)
        /\ draws' = draws + 1

SpecGen == InitGen /\ [][Draw \/ CallGenerateDungeon \/ CallGenerateDungeonUnseeded]_vars

\* ------------------------------------------------------------------ canWalk
\* The maps canWalk is asked about: the rectangular ones, the map without
\* rows and the maps whose rows are empty.
MapsWithEmpty == AllMaps \cup {<<>>} \cup {[y \in 1..h |-> <<>>] : h \in 1..MaxH}

InitWalk ==
    /\ map \in MapsWithEmpty
    /\ call = NoCall
    /\ agent = NoAgent
    /\ rng = NoRng
    /\ draws = 0
    /\ firstGen = NoCall
    /\ NoGame

CallCanWalk ==
    /\ call = NoCall
    /\ \E x \in Xs, y \in Ys :
        /\ call' = [op |-> "canWalk", x |-> x, y |-> y, result |-> canWalk(map, x, y)]
        /\ map' = queriedMap(map)
        /\ UNCHANGED <<agent, rng, draws, firstGen, game>>

SpecCanWalk == InitWalk /\ [][CallCanWalk]_vars

\* -------------------------------------------------------------- sampleFloors
\* The cells of the map in the order of for (y) for (x).
cellsRowMajor(m) ==
    [i \in 1..(Width(m) * Height(m)) |-> Pos((i - 1) % Width(m), (i - 1) \div Width(m))]

\* allFloorPositions(map): the walkable cells, row by row.
allFloorPositions(m) ==
    SelectSeq(cellsRowMajor(m), LAMBDA p : TileAt(m, p.x, p.y).walkable)

\* for (let i = floors.length - 1; i >= 0; i--) {
\*   const d = Math.abs(floors[i].x - fx) + Math.abs(floors[i].y - fy);
\*   if (d < minManhattan) floors.splice(i, 1); }
\* i counts the entries of the sequence from 1.
RECURSIVE removeNear(_, _, _, _, _)
removeNear(floors, i, fx, fy, minManhattan) ==
    IF i < 1 THEN floors
    ELSE LET dx == IF floors[i].x >= fx THEN floors[i].x - fx ELSE fx - floors[i].x
             dy == IF floors[i].y >= fy THEN floors[i].y - fy ELSE fy - floors[i].y
         IN  IF dx + dy < minManhattan
             THEN removeNear(SubSeq(floors, 1, i - 1) \o SubSeq(floors, i + 1, Len(floors)),
                             i - 1, fx, fy, minManhattan)
             ELSE removeNear(floors, i - 1, fx, fy, minManhattan)

\* The candidate pool of sampleFloors; from is <<>> (undefined) or <<position>>.
samplePool(m, exclude, minManhattan, from) ==
    LET floors == SelectSeq(allFloorPositions(m), LAMBDA p : key(p.x, p.y) \notin exclude)
    IN  IF from # <<>> /\ minManhattan > 0
        THEN removeNear(floors, Len(floors), from[1].x, from[1].y, minManhattan)
        ELSE floors

\* A loop that makes one pass more than count.
RECURSIVE sampleLoopOnceMore(_, _, _, _, _)
sampleLoopOnceMore(floors, result, i, count, r) ==
    IF i <= count /\ Len(floors) > 0
    THEN LET u == getUniform(r)
             idx == floorTimes(u.value, Len(floors))
         IN  sampleLoopOnceMore(SubSeq(floors, 1, idx) \o SubSeq(floors, idx + 2, Len(floors)),
                                Append(result, floors[idx + 1]), i + 1, count, u.rng)
    ELSE [result |-> result, rng |-> r]

\* A loop that leaves the drawn position in the pool.
RECURSIVE sampleLoopKeeping(_, _, _, _, _)
sampleLoopKeeping(floors, result, i, count, r) ==
    IF i < count /\ Len(floors) > 0
    THEN LET u == getUniform(r)
             idx == floorTimes(u.value, Len(floors))
         IN  sampleLoopKeeping(floors, Append(result, floors[idx + 1]), i + 1, count, u.rng)
    ELSE [result |-> result, rng |-> r]

\* for (let i = 0; i < count && floors.length; i++) {
\*   const idx = Math.floor(RNG.getUniform() * floors.length);
\*   result.push(floors[idx]); floors.splice(idx, 1); }
RECURSIVE sampleLoop(_, _, _, _, _)
sampleLoop(floors, result, i, count, r) ==
    IF i < count /\ Len(floors) > 0
    THEN LET u == getUniform(r)
             idx == floorTimes(u.value, Len(floors))
         IN  sampleLoop(SubSeq(floors, 1, idx) \o SubSeq(floors, idx + 2, Len(floors)),
                        Append(result, floors[idx + 1]), i + 1, count, u.rng)
    ELSE [result |-> result, rng |-> r]

\* sampleFloors(map, count, exclude, minManhattan, from) with the stream in
\* state r: the positions returned and the stream after the call.
sampleFloors(m, count, exclude, minManhattan, from, r) ==
    sampleLoop(samplePool(m, exclude, minManhattan, from), <<>>, 0, count, r)

\* Largest count and largest minManhattan sampleFloors is called with.
MaxCount == 3
MaxManhattan == 2

\* The positions `from` may be: undefined or a cell of the map.
Froms(m) ==
    {<<>>} \cup {<<Pos(x, y)>> : x \in 0..(Width(m) - 1), y \in 0..(Height(m) - 1)}

\* The seed the stream was last seeded with: the first seed of core.test.ts.
SampleSeed == 123

\* A map and the stream as the seeding left it.
InitSample ==
    /\ map \in AllMaps
    /\ call = NoCall
    /\ agent = NoAgent
    /\ rng = setSeed(SampleSeed)
    /\ draws = 0
    /\ firstGen = NoCall
    /\ NoGame

CallSampleFloors ==
    /\ call = NoCall
    /\ \E count \in 0..MaxCount, exclude \in BlockSets(map),
          minManhattan \in 0..MaxManhattan, from \in Froms(map) :
        \E res \in {sampleFloors(map, count, exclude, minManhattan, from, rng)} :
            /\ call' = [op |-> "sampleFloors", count |-> count, exclude |-> exclude,
                        minManhattan |-> minManhattan, from |-> from,
                        result |-> res.result]
            /\ rng' = res.rng
            /\ map' = queriedMap(map)
            /\ UNCHANGED <<agent, draws, firstGen, game>>

SpecSample == InitSample /\ [][CallSampleFloors]_vars

\* ------------------------------------------------- the query operations
\* One behaviour is one call of any of the query operations on one map.
SpecQuery ==
    InitSample /\ [][CallReachableFrom \/ CallAStarNextStep \/ CallComputeVisible
                        \/ CallCanWalk \/ CallSampleFloors]_vars

\* ---------------------------------------------------------- generateOverworld
\* rot-js Map.Cellular keeps this._map[x][y], 1 for a live cell.  The model
\* keeps it as the sequence of the cells in the order for (x) for (y): cell
\* (x, y) is entry x * h + y + 1.
cellAt(bits, h, x, y) == bits[(x * h) + y + 1]

\* The cells for (i < w) for (j < h) visits: none when w or h is not positive.
cellCount(w, h) == IF w > 0 /\ h > 0 THEN w * h ELSE 0

\* RNG.getUniform() < 0.45 for a number u the RNG returned: u * 2^32 is an
\* integer, and 0.45 * 2^32 = 29491 * 2^16 + 13107.2.
below045(u) == u[1] < 29491 \/ (u[1] = 29491 /\ u[2] <= 13107)

\* rot-js Cellular.randomize(0.45): one draw for each cell, for (i) for (j);
\* bits are the cells drawn so far.
RECURSIVE cellularRandomize(_, _, _)
cellularRandomize(total, bits, r) ==
    IF Len(bits) >= total THEN [bits |-> bits, rng |-> r]
    ELSE LET u == getUniform(r)
         IN  cellularRandomize(total, Append(bits, IF below045(u.value) THEN 1 ELSE 0), u.rng)

\* rot-js DIRS[8], the neighbours of Cellular's default topology.
DIRS8 == << <<0, -1>>, <<1, -1>>, <<1, 0>>, <<1, 1>>, <<0, 1>>, <<-1, 1>>, <<-1, 0>>, <<-1, -1>> >>

\* rot-js Cellular._getNeighbors: the live cells among the neighbours in the map.
getNeighbors(bits, w, h, cx, cy) ==
    Cardinality({d \in 1..Len(DIRS8) :
        /\ inBounds(w, h, cx + DIRS8[d][1], cy + DIRS8[d][2])
        /\ cellAt(bits, h, cx + DIRS8[d][1], cy + DIRS8[d][2]) = 1})

\* One generation of a cell: alive when it survives (4 to 8 live neighbours,
\* the default survive option) or is born (5 to 8, the default born option).
nextCell(cur, ncount) ==
    IF (cur = 1 /\ ncount >= 4) \/ (cur = 0 /\ ncount >= 5) THEN 1 ELSE 0

\* rot-js Cellular.create(): one generation of the whole map, built as a
\* new sequence (newMap) from the old one.
cellularCreate(bits, w, h) ==
    <<>> \o [k \in 1..cellCount(w, h) |->
        nextCell(bits[k], getNeighbors(bits, w, h, (k - 1) \div h, (k - 1) % h))]

\* for (let i = 0; i < 4; i++) cellular.create(); and the create with the callback
RECURSIVE cellularGenerations(_, _, _, _)
cellularGenerations(bits, w, h, n) ==
    IF n = 0 THEN bits ELSE cellularGenerations(cellularCreate(bits, w, h), w, h, n - 1)

\* The callback of the last create on the map of createEmptyMap:
\* map[y][x].walkable = value === 0.
overworldCarve(empty, w, h, bits) ==
    [y \in 1..h |-> [x \in 1..w |->
        [empty[y][x] EXCEPT !.walkable = cellAt(bits, h, x - 1, y - 1) = 0]]]

\* A correction step that never inverts.
correctOpenSpaceNever(m, w, h) == m

\* const openCount = allFloorPositions(map).length;
\* if (openCount < (w * h) * 0.15) invert every walkable flag.
\* The comparison is made on integers: openCount * 100 < w * h * 15.
correctOpenSpace(m, w, h) ==
    IF Len(allFloorPositions(m)) * 100 < w * h * 15
    THEN [y \in 1..h |-> [x \in 1..w |-> [m[y][x] EXCEPT !.walkable = ~m[y][x].walkable]]]
    ELSE m

\* floors.sort by the Manhattan distance to the centre: the sort is stable,
\* so the cells of one distance stay in the order of allFloorPositions.
\* The cells of distance d and more, in sorted order.
RECURSIVE sortByCentre(_, _, _, _)
sortByCentre(floors, w, h, d) ==
    IF d > w + h THEN <<>>
    ELSE SelectSeq(floors, LAMBDA p : astarDistance(w \div 2, h \div 2, p.x, p.y) = d)
         \o sortByCentre(floors, w, h, d + 1)

\* A choice among all the open cells, however many there are.
overworldStartUncapped(floors, r) ==
    IF Len(floors) = 0 THEN [start |-> Pos(1, 1), rng |-> r]
    ELSE LET u == getUniform(r)
             idx == floorTimes(u.value, Len(floors))
         IN  [start |-> IF idx < Len(floors) THEN floors[idx + 1] ELSE floors[1], rng |-> u.rng]

\* let start = { x: 1, y: 1 }; if (floors.length) { floors.sort(...);
\* start = floors[Math.floor(RNG.getUniform() * Math.min(200, floors.length))] ?? floors[0]; }
\* floors are sorted already; the result is the start and the stream after.
overworldStart(floors, r) ==
    IF Len(floors) = 0 THEN [start |-> Pos(1, 1), rng |-> r]
    ELSE LET u == getUniform(r)
             idx == floorTimes(u.value, IF Len(floors) < 200 THEN Len(floors) ELSE 200)
         IN  [start |-> IF idx < Len(floors) THEN floors[idx + 1] ELSE floors[1], rng |-> u.rng]

\* What generateOverworld returns for a corrected map m and a start, with the
\* map as the automaton left it (before) kept beside it for the properties.
overworldResult(before, m, st) ==
    [before |-> before, map |-> m, start |-> st.start, rng |-> st.rng]

\* A generator that lists the open cells before the correction step.
overworldAfterStaleFloors(m, w, h, r) ==
    overworldResult(m, correctOpenSpace(m, w, h),
                    overworldStart(sortByCentre(allFloorPositions(m), w, h, 0), r))

\* generateOverworld from the correction step on: m is the map the callback
\* has filled, r the stream the automaton left.
overworldAfter(m, w, h, r) ==
    overworldResult(m, correctOpenSpace(m, w, h),
                    overworldStart(sortByCentre(allFloorPositions(correctOpenSpace(m, w, h)), w, h, 0), r))

\* The automaton of generateOverworld: randomize(0.45), four generations and
\* the one with the callback; the map the callback fills and the stream after.
overworldCells(w, h, drawn) ==
    [map |-> overworldCarve(createEmptyMap(w, h), w, h,
                            cellularGenerations(drawn.bits, w, h, 5)),
     rng |-> drawn.rng]

overworldFinish(w, h, cells) == overworldAfter(cells.map, w, h, cells.rng)

\* generateOverworld(w, h, seed) called when the stream is in state r; seed
\* is <<>> (undefined) or <<n>>.
generateOverworld(w, h, seed, r) ==
    overworldFinish(w, h,
        overworldCells(w, h,
            cellularRandomize(cellCount(w, h), <<>>, IF seed # <<>> THEN setSeed(seed[1]) ELSE r)))

\* The sizes the overworld is generated with.
OverSizes == {<<1, 1>>, <<3, 2>>, <<8, 6>>}

InitOver ==
    /\ map = <<>>
    /\ call = NoCall
    /\ agent = NoAgent
    /\ rng \in {setSeed(n) : n \in Seeds}
    /\ draws = 0
    /\ firstGen = NoCall
    /\ NoGame

\* generateOverworld has no throw of its own and the automaton none on the
\* way the code takes through it: every call returns.
OverworldCall(w, h, seed, automaton, res) ==
    /\ call' = [op |-> "generateOverworld", w |-> w, h |-> h, seed |-> seed,
                automaton |-> automaton, thrown |-> FALSE,
                before |-> res.before, map |-> res.map, start |-> res.start]
    /\ rng' = res.rng
    /\ map' = res.map
    /\ draws' = draws + 1
    /\ UNCHANGED <<agent, firstGen, game>>

\* No call yet, or none whose automaton left the stream unknown.
StreamKnown == IF call = NoCall THEN TRUE ELSE call.automaton = "modelled"

\* generateOverworld(w, h, seed) and generateOverworld(w, h)
CallGenerateOverworld ==
    /\ draws < MaxDraws
    /\ StreamKnown
    /\ \E size \in OverSizes, seed \in {<<>>} \cup {<<n>> : n \in Seeds} :
        \E res \in {generateOverworld(size[1], size[2], seed, rng)} :
            OverworldCall(size[1], size[2], seed, "modelled", res)

\* generateOverworld(w, h) with the automaton taken as it is described, not
\* as it is made: it may leave any cells open and any closed.  What it drew
\* from the stream is not known, so no call follows this one.
CallGenerateOverworldAnyCells ==
    /\ draws < MaxDraws
    /\ StreamKnown
    /\ \E m \in AllMaps :
        \E res \in {overworldAfter(m, Width(m), Height(m), rng)} :
            OverworldCall(Width(m), Height(m), <<>>, "any", res)

\* The size of the maps with more than 200 open cells.
WideW == 30
WideH == 15

\* What the automaton may leave on such a map, four layouts of all there are:
\* no open cell, and the cells off every second, third and fourth diagonal.
WideCells ==
    {[y \in 1..WideH |-> [x \in 1..WideW |-> Tile((x + y) % k # 0)]] : k \in 1..4}

\* generateOverworld(w, h) on a map with room for more than 200 open cells,
\* the automaton taken as it is described as above.
CallGenerateOverworldWideCells ==
    /\ draws < MaxDraws
    /\ StreamKnown
    /\ \E m \in WideCells :
        \E res \in {overworldAfter(m, WideW, WideH, rng)} :
            OverworldCall(WideW, WideH, <<>>, "wide", res)

SpecOver ==
    InitOver /\ [][CallGenerateOverworld \/ CallGenerateOverworldAnyCells
                      \/ CallGenerateOverworldWideCells]_vars

\* ------------------------------------------------- generators, sizes <= 0
\* Sizes with a width or a height that is not positive.
BadSizes == {<<0, 0>>, <<0, 5>>, <<8, 0>>, <<20, 0>>, <<-1, 3>>, <<8, -1>>, <<-2, -2>>}

CallGenerateDungeonBadSize ==
    /\ draws < MaxDraws
    /\ \E size \in BadSizes, seed \in {<<>>} \cup {<<n>> : n \in Seeds} :
        /\ GenerateDungeonCall(size[1], size[2], seed)
        /\ draws' = draws + 1

CallGenerateOverworldBadSize ==
    /\ draws < MaxDraws
    /\ \E size \in BadSizes, seed \in {<<>>} \cup {<<n>> : n \in Seeds} :
        \E res \in {generateOverworld(size[1], size[2], seed, rng)} :
            OverworldCall(size[1], size[2], seed, "modelled", res)

SpecBadSize ==
    InitGen /\ [][Draw \/ CallGenerateDungeonBadSize \/ CallGenerateOverworldBadSize]_vars

\* --------------------------------------------------------- the dungeon turns
\* The turn loop of src/unnamed/part_000 in the dungeon world: regen() builds
\* the level and spawns the enemies, a direction key makes the player attack
\* or move, and moveEnemies() then gives every enemy its turn.

\* state.player at construction and after regen(true): hp: 10, atkMin: 2, atkMax: 4
PlayerHp == 10
PlayerAtkMin == 2
PlayerAtkMax == 4

\* spawnEnemies pushes slimes: hp: 5, atkMin: 1, atkMax: 2
SlimeHp == 5
SlimeAtkMin == 1
SlimeAtkMax == 2

\* The game spawns 10 slimes at least 6 steps from the player on a map of
\* 80 by 50; the model spawns SpawnCount slimes at least SpawnDistance steps
\* away on the maps of TurnMaps.
SpawnCount == 2
SpawnDistance == 2

\* A test that only looks at the player.
isOccupiedByPlayer(es, p, x, y) == p.x = x /\ p.y = y

\* isOccupied(x, y) with state.enemies = es and state.player = p
isOccupied(es, p, x, y) ==
    \/ \E i \in 1..Len(es) : es[i].x = x /\ es[i].y = y
    \/ p.x = x /\ p.y = y

\* enemyAt(x, y): the index of the first enemy on the tile, 0 for undefined
enemyAt(es, x, y) ==
    LET at == {i \in 1..Len(es) : es[i].x = x /\ es[i].y = y}
    IN  IF at = {} THEN 0 ELSE CHOOSE i \in at : \A j \in at : i <= j

\* removeEnemy(enemy): state.enemies.splice(idx, 1)
removeEnemy(es, idx) == SubSeq(es, 1, idx - 1) \o SubSeq(es, idx + 1, Len(es))

\* The keys of the tiles of the enemies.
enemyKeys(es) == {key(es[i].x, es[i].y) : i \in 1..Len(es)}

\* const dirs = [[1,0],[-1,0],[0,1],[0,-1]]; Math.random() picks any of them.
nudgeDirs == {<<1, 0>>, <<-1, 0>>, <<0, 1>>, <<0, -1>>}

\* enemyAttack(enemy) with the damage randInt drew.
enemyAttack(st, dmg) ==
    IF st.player.hp - dmg <= 0
    THEN [st EXCEPT !.player.hp = 0, !.gameOver = TRUE]
    ELSE [st EXCEPT !.player.hp = @ - dmg]

\* e.x = nx; e.y = ny; blocks.add(`${e.x},${e.y}`): the end of the loop body,
\* with the aStarNextStep call of this enemy written to the log.
enemyMoved(st, i, nx, ny, blocks, plan) ==
    [st EXCEPT !.enemies[i].x = nx, !.enemies[i].y = ny,
               !.blocks = blocks \cup {key(nx, ny)},
               !.plans = Append(@, plan)]

\* Lines 629-643 for enemy i, after its own key was deleted from the blocks:
\* the states the planning and the random nudge can leave.
enemyPlans(m, st, i, freed) ==
    LET e == st.enemies[i]
        p == st.player
        step == aStarNextStep(m, Pos(e.x, e.y), Pos(p.x, p.y), freed)
        after == aStarNextStepBlocks(m, Pos(e.x, e.y), Pos(p.x, p.y), freed)
        plan == [enemy |-> i, from |-> Pos(e.x, e.y), blocks |-> freed,
                 enemies |-> st.enemies, player |-> Pos(p.x, p.y)]
    IN  IF step # null /\ ~isOccupied(st.enemies, p, step.x, step.y)
                       /\ canWalk(m, step.x, step.y)
        THEN {enemyMoved(st, i, step.x, step.y, after, plan)}
        ELSE {IF canWalk(m, e.x + d[1], e.y + d[2])
                 /\ ~isOccupied(st.enemies, p, e.x + d[1], e.y + d[2])
              THEN enemyMoved(st, i, e.x + d[1], e.y + d[2], after, plan)
              ELSE enemyMoved(st, i, e.x, e.y, after, plan) : d \in nudgeDirs}

\* A loop body that leaves the enemy's own key in the blocks.
enemyTurnKeepingOwnKey(m, st, i) ==
    LET e == st.enemies[i]
        dx == IF e.x >= st.player.x THEN e.x - st.player.x ELSE st.player.x - e.x
        dy == IF e.y >= st.player.y THEN e.y - st.player.y ELSE st.player.y - e.y
    IN  IF dx + dy = 1
        THEN {enemyAttack(st, dmg) : dmg \in SlimeAtkMin..SlimeAtkMax}
        ELSE enemyPlans(m, st, i, st.blocks)

\* The body of the loop of moveEnemies for enemy i (lines 618-643).
enemyTurn(m, st, i) ==
    LET e == st.enemies[i]
        freed == st.blocks \ {key(e.x, e.y)}
        dx == IF e.x >= st.player.x THEN e.x - st.player.x ELSE st.player.x - e.x
        dy == IF e.y >= st.player.y THEN e.y - st.player.y ELSE st.player.y - e.y
    IN  IF dx + dy = 1
        THEN {[enemyAttack(st, dmg) EXCEPT !.blocks = freed \cup {key(e.x, e.y)}] :
                dmg \in SlimeAtkMin..SlimeAtkMax}
        ELSE enemyPlans(m, st, i, freed)

\* for (const e of state.enemies) { ... if (gameOver) return; ... }
RECURSIVE moveLoop(_, _, _)
moveLoop(m, st, i) ==
    IF i > Len(st.enemies) \/ st.gameOver THEN {st}
    ELSE UNION {moveLoop(m, s, i + 1) : s \in enemyTurn(m, st, i)}

\* moveEnemies(): the states one call can leave.
moveEnemies(m, p, es, over) ==
    IF over
    THEN {[player |-> p, enemies |-> es, gameOver |-> over, blocks |-> {}, plans |-> <<>>]}
    ELSE moveLoop(m, [player |-> p, enemies |-> es, gameOver |-> over,
                      blocks |-> enemyKeys(es) \cup {key(p.x, p.y)},
                      plans |-> <<>>], 1)

\* spawnEnemies(count): one slime on every spot sampleFloors returns.
spawnEnemies(m, p, count, r) ==
    LET spots == sampleFloors(m, count, {key(p.x, p.y)}, SpawnDistance, <<Pos(p.x, p.y)>>, r)
    IN  [enemies |-> [i \in 1..Len(spots.result) |->
                        [x |-> spots.result[i].x, y |-> spots.result[i].y, hp |-> SlimeHp]],
         rng |-> spots.rng]

\* ------------------------------------------------------- the game's worlds
\* const FOV_RADIUS = 8
FOV_RADIUS == 8

\* The room of a house is 20 by 12 tiles on the map of 80 by 50; the model
\* builds a room of RoomW by RoomH on its maps, without the furniture.
RoomW == 4
RoomH == 3

\* The objects of the game as one record, as a handler finds them.
Current ==
    [map |-> map, player |-> player, enemies |-> enemies, gameOver |-> gameOver,
     world |-> world, door |-> door, houseDoors |-> houseDoors,
     currentHouse |-> currentHouse, dungeonSave |-> dungeonSave,
     overworldSave |-> overworldSave, items |-> items, potion |-> potion,
     inventoryOpen |-> inventoryOpen, rng |-> rng, plans |-> <<>>,
     mapChange |-> "kept", left |-> left]

\* The objects of the game as a handler leaves them.
Becomes(g, keep) ==
    /\ map' = g.map
    /\ player' = g.player
    /\ enemies' = g.enemies
    /\ gameOver' = g.gameOver
    /\ world' = g.world
    /\ door' = g.door
    /\ houseDoors' = g.houseDoors
    /\ currentHouse' = g.currentHouse
    /\ dungeonSave' = g.dungeonSave
    /\ overworldSave' = g.overworldSave
    /\ items' = g.items
    /\ potion' = g.potion
    /\ inventoryOpen' = g.inventoryOpen
    /\ rng' = g.rng
    /\ plans' = IF keep THEN g.plans ELSE <<>>
    /\ mapChange' = g.mapChange
    /\ left' = g.left

\* dungeonSave = { map: state.map, ... } keeps a reference: while a save is
\* live its map is the object state.map, and what is written to the tiles of
\* state.map is written to the save.  A live save holds no copy.
isLive(save) == IF save = null THEN FALSE ELSE save.live

savedMap(g, save) == IF save.live THEN g.map ELSE save.map

frozen(g, save) ==
    IF isLive(save) THEN [save EXCEPT !.map = g.map, !.live = FALSE] ELSE save

\* state.map = m for an object m other than state.map: the saves that refer
\* to the old object keep it as it is now.
assignMap(g, m, how) ==
    [g EXCEPT !.map = m, !.mapChange = how,
              !.dungeonSave = frozen(g, @),
              !.overworldSave = frozen(g, @)]

\* state.map[y][x].walkable = wk for the tiles of a set of cells
setWalkable(m, cells, wk) ==
    [y \in 1..Height(m) |-> [x \in 1..Width(m) |->
        IF <<x - 1, y - 1>> \in cells THEN [m[y][x] EXCEPT !.walkable = wk]
        ELSE m[y][x]]]

\* const radius = state.world === 'overworld' ? Math.max(12, FOV_RADIUS)
\*              : (state.world === 'house' ? 14 : FOV_RADIUS);
fovRadius(w) ==
    IF w = "overworld" THEN (IF 12 > FOV_RADIUS THEN 12 ELSE FOV_RADIUS)
    ELSE IF w = "house" THEN 14 ELSE FOV_RADIUS

\* The levels of the turn loop: a room, a room with a wall in one corner and
\* a corridor, each with two tiles of rock around it.  No floor touches the
\* tiles next to the boundary, so placeExitDoor finds no spot on them.
Room == [y \in 1..6 |-> [x \in 1..7 |-> Tile(x \in 3..5 /\ y \in 3..4)]]
Bend == [y \in 1..6 |-> [x \in 1..7 |-> Tile(x \in 3..5 /\ y \in 3..4 /\ ~(x = 3 /\ y = 4))]]
Corridor == [y \in 1..5 |-> [x \in 1..8 |-> Tile(x \in 3..6 /\ y = 3)]]
TurnMaps == {Room, Bend, Corridor}

\* The walkable flags of a map, row by row.
layout(m) == <<>> \o [y \in 1..Height(m) |-> <<>> \o [x \in 1..Width(m) |-> m[y][x].walkable]]

\* The floors of a map.
floorsOf(m) ==
    {c \in (0..(Width(m) - 1)) \X (0..(Height(m) - 1)) : TileAt(m, c[1], c[2]).walkable}

\* computeVisible with the radius of the dungeon from every floor of the
\* levels of the turn loop, computed once: <<layout, x, y, visible set>>.
turnSights ==
    UNION {{<<layout(m), c[1], c[2], computeVisible(m, c[1], c[2], FOV_RADIUS)>> :
                c \in floorsOf(m)} : m \in TurnMaps}

\* computeVisible(state.map, state.player.x, state.player.y, radius), looked
\* up in turnSights where the call is one of those.
sightKnown(m, x, y, radius, known) ==
    IF known # {} THEN (CHOOSE s \in known : TRUE)[4]
    ELSE computeVisible(m, x, y, radius)

sight(m, x, y, radius) ==
    sightKnown(m, x, y, radius,
               IF radius = FOV_RADIUS
               THEN {s \in turnSights : s[2] = x /\ s[3] = y /\ s[1] = layout(m)}
               ELSE {})

\* The set vis of updateFOVAndVisibility, with the key of the player's tile.
visibleNow(g) ==
    sight(g.map, g.player.x, g.player.y, fovRadius(g.world))
        \cup {key(g.player.x, g.player.y)}

\* An update that leaves the visible flags of the last update standing.
markVisibleWithoutReset(m, vis) ==
    [y \in 1..Height(m) |-> [x \in 1..Width(m) |->
        [walkable |-> m[y][x].walkable,
         visible |-> m[y][x].visible \/ key(x - 1, y - 1) \in vis,
         explored |-> m[y][x].explored \/ key(x - 1, y - 1) \in vis]]]

\* An update that takes the explored flag from what is visible now.
markVisibleForgetting(m, vis) ==
    [y \in 1..Height(m) |-> [x \in 1..Width(m) |->
        [walkable |-> m[y][x].walkable,
         visible |-> key(x - 1, y - 1) \in vis,
         explored |-> key(x - 1, y - 1) \in vis]]]

\* The tiles with the flags set from the set vis, every visible flag reset first.
markVisible(m, vis) ==
    <<>> \o [y \in 1..Height(m) |-> <<>> \o [x \in 1..Width(m) |->
        [walkable |-> m[y][x].walkable,
         visible |-> key(x - 1, y - 1) \in vis,
         explored |-> m[y][x].explored \/ key(x - 1, y - 1) \in vis]]]

\* updateFOVAndVisibility()
updateFOVAndVisibility(g) == [g EXCEPT !.map = markVisible(g.map, visibleNow(g))]

\* |a.x - b.x| + |a.y - b.y| === 1
nextTo(a, b) ==
    (IF a.x >= b.x THEN a.x - b.x ELSE b.x - a.x)
        + (IF a.y >= b.y THEN a.y - b.y ELSE b.y - a.y) = 1

\* Candidates that take any boundary cell next to a walkable cell.
exitDoorCandidatesAnywhere(m, reach) ==
    LET w == Width(m)
        h == Height(m)
    IN  {Pos(x, 0) : x \in {x \in 0..(w - 1) :
            ~TileAt(m, x, 0).walkable /\ TileAt(m, x, 1).walkable}}
        \cup {Pos(x, h - 1) : x \in {x \in 0..(w - 1) :
            ~TileAt(m, x, h - 1).walkable /\ TileAt(m, x, h - 2).walkable}}
        \cup {Pos(0, y) : y \in {y \in 0..(h - 1) :
            ~TileAt(m, 0, y).walkable /\ TileAt(m, 1, y).walkable}}
        \cup {Pos(w - 1, y) : y \in {y \in 0..(h - 1) :
            ~TileAt(m, w - 1, y).walkable /\ TileAt(m, w - 2, y).walkable}}

\* The candidates of placeExitDoor: the boundary cells that are not walkable
\* and whose neighbour towards the inside is walkable and in reach.
exitDoorCandidates(m, reach) ==
    LET w == Width(m)
        h == Height(m)
    IN  {Pos(x, 0) : x \in {x \in 0..(w - 1) :
            ~TileAt(m, x, 0).walkable /\ TileAt(m, x, 1).walkable /\ key(x, 1) \in reach}}
        \cup {Pos(x, h - 1) : x \in {x \in 0..(w - 1) :
            ~TileAt(m, x, h - 1).walkable /\ TileAt(m, x, h - 2).walkable
                /\ key(x, h - 2) \in reach}}
        \cup {Pos(0, y) : y \in {y \in 0..(h - 1) :
            ~TileAt(m, 0, y).walkable /\ TileAt(m, 1, y).walkable /\ key(1, y) \in reach}}
        \cup {Pos(w - 1, y) : y \in {y \in 0..(h - 1) :
            ~TileAt(m, w - 1, y).walkable /\ TileAt(m, w - 2, y).walkable
                /\ key(w - 2, y) \in reach}}

\* The fallback of placeExitDoor: the spots the loop over the keys of reach
\* can stop at.
exitDoorFallback(m, reach) ==
    LET w == Width(m)
        h == Height(m)
    IN  {Pos(x, 0) : x \in {x \in 0..(w - 1) :
            key(x, 1) \in reach /\ ~TileAt(m, x, 0).walkable}}
        \cup {Pos(x, h - 1) : x \in {x \in 0..(w - 1) :
            key(x, h - 2) \in reach /\ ~TileAt(m, x, h - 1).walkable}}
        \cup {Pos(0, y) : y \in {y \in 0..(h - 1) :
            key(1, y) \in reach /\ ~TileAt(m, 0, y).walkable}}
        \cup {Pos(w - 1, y) : y \in {y \in 0..(h - 1) :
            key(w - 2, y) \in reach /\ ~TileAt(m, w - 1, y).walkable}}

\* placeExitDoor() with state.map = m and state.player = p: the doors it can
\* place, null when it gives up.  Math.random() picks any candidate.
exitDoors(spots) ==
    IF spots = {} THEN {null}
    ELSE {[x |-> s.x, y |-> s.y, open |-> FALSE] : s \in spots}

exitDoorSpots(m, reach, candidates) ==
    exitDoors(IF candidates # {} THEN candidates ELSE exitDoorFallback(m, reach))

exitDoorWithin(m, reach) == exitDoorSpots(m, reach, exitDoorCandidates(m, reach))

placeExitDoor(m, p) == exitDoorWithin(m, reachableFrom(m, p.x, p.y))

\* const dirs = [[1,0],[-1,0],[0,1],[0,-1]]: the first walkable neighbour of
\* the door in this order, the tile of the player when there is none.
besideDoor(m, p, d) ==
    LET free(dx, dy) == canWalk(m, d.x + dx, d.y + dy)
    IN  IF free(1, 0) THEN Pos(d.x + 1, d.y)
        ELSE IF free(-1, 0) THEN Pos(d.x - 1, d.y)
        ELSE IF free(0, 1) THEN Pos(d.x, d.y + 1)
        ELSE IF free(0, -1) THEN Pos(d.x, d.y - 1)
        ELSE Pos(p.x, p.y)

\* placeEntranceDoorOutside(): the states it can leave.  The candidates are
\* the walkable tiles off the boundary; Math.random() picks any of them.
placeEntranceDoorOutside(g) ==
    LET m == g.map
        candidates == {c \in (1..(Width(m) - 2)) \X (1..(Height(m) - 2)) :
                          TileAt(m, c[1], c[2]).walkable}
    IN  IF candidates = {} THEN {g}
        ELSE {LET d == Pos(c[1], c[2])
                  to == besideDoor(m, g.player, d)
              IN  [g EXCEPT !.door = [x |-> d.x, y |-> d.y, open |-> FALSE],
                            !.player.x = to.x, !.player.y = to.y] : c \in candidates}

\* Math.floor(Math.random() * n) for an integer n: Math.random() is in [0, 1)
randomBelow(n) == IF n > 0 THEN 0..(n - 1) ELSE n..0

\* The centres placeVillage can draw:
\* cx = 3 + Math.floor(Math.random() * (MAP_W - 6)), cy likewise with MAP_H
villageCentres(m) ==
    {<<3 + i, 3 + j>> : i \in randomBelow(Width(m) - 6), j \in randomBelow(Height(m) - 6)}

\* The test of one try of placeVillage: the centre is in reach and the 5 by 5
\* tiles around it are walkable.
villageFits(m, reach, c) ==
    /\ key(c[1], c[2]) \in reach
    /\ \A x \in (c[1] - 2)..(c[1] + 2), y \in (c[2] - 2)..(c[2] + 2) :
          TileAt(m, x, y).walkable

\* houseTopLefts, NW, NE, SW, SE, and for each the door tile of its 2 by 2
\* block, the one that faces the centre.
villageDoors(c) ==
    << Pos(c[1] - 1, c[2] - 1), Pos(c[1] + 1, c[2] - 1),
       Pos(c[1] - 1, c[2] + 1), Pos(c[1] + 1, c[2] + 1) >>

\* The tiles of the four 2 by 2 blocks, the door tiles among them.
villageBlocks(c) ==
    {<<x, y>> : x \in {c[1] - 2, c[1] - 1, c[1] + 1, c[1] + 2},
                y \in {c[2] - 2, c[2] - 1, c[2] + 1, c[2] + 2}}

\* placeVillage(): the states it can leave.  Each of the 50 tries draws any
\* centre; a try that fits builds the village and returns, and when some
\* centre does not fit, all 50 tries may have drawn one that does not.
villageOn(g, fits) ==
    {[g EXCEPT !.map = setWalkable(@, villageBlocks(c), FALSE),
               !.houseDoors = [i \in 1..4 |->
                    [x |-> villageDoors(c)[i].x, y |-> villageDoors(c)[i].y,
                     open |-> FALSE]]] : c \in fits}
        \cup (IF fits # villageCentres(g.map) \/ fits = {} THEN {g} ELSE {})

villageWithin(g, reach) ==
    villageOn(g, {c \in villageCentres(g.map) : villageFits(g.map, reach, c)})

placeVillage(g) == villageWithin(g, reachableFrom(g.map, g.player.x, g.player.y))

\* { x: state.door.x, y: state.door.y, open: state.door.open }, and
\* { x: 0, y: 0, open: false } where the save is written without a door
doorCopy(d) ==
    IF d = null THEN [x |-> 0, y |-> 0, open |-> FALSE]
    ELSE [x |-> d.x, y |-> d.y, open |-> d.open]

\* overworldSave = { map: state.map, door: ..., player: ..., houses: ... }
savedOverworld(g, houses) ==
    [map |-> <<>>, live |-> TRUE, door |-> doorCopy(g.door),
     player |-> Pos(g.player.x, g.player.y), houses |-> houses]

\* The map enterHouse builds: walls, and a room in the middle of it.
houseMap(w, h) ==
    LET rx0 == (w - RoomW) \div 2
        ry0 == (h - RoomH) \div 2
    IN  [y \in 1..h |-> [x \in 1..w |->
            Tile(x - 1 >= rx0 /\ x - 1 < rx0 + RoomW /\ y - 1 >= ry0 /\ y - 1 < ry0 + RoomH)]]

\* const ex = rx0 + Math.floor(rw / 2), ey = ry0 + rh; const doorY = ey - 1;
houseDoor(w, h) ==
    [x |-> (w - RoomW) \div 2 + RoomW \div 2, y |-> (h - RoomH) \div 2 + RoomH - 1,
     open |-> TRUE]

\* enterHouse(kind): the overworld is saved, the room is built and the player
\* stands above its door.
enterHouse(g) ==
    LET w == Width(g.map)
        h == Height(g.map)
        saved == [g EXCEPT !.left.overworld =
                                [layout |-> layout(g.map), open |-> doorCopy(g.door).open],
                           !.overworldSave = savedOverworld(g, g.houseDoors),
                           !.world = "house",
                           !.currentHouse = Pos(g.player.x, g.player.y)]
        built == assignMap(saved, houseMap(w, h), "made")
        d == houseDoor(w, h)
    IN  updateFOVAndVisibility(
            [built EXCEPT !.map = setWalkable(@, {<<d.x, d.y>>}, TRUE),
                          !.door = d, !.player.x = d.x, !.player.y = d.y - 1])

\* state.map = save.map for a save of g: the object the save refers to.
restoredMap(g, save) ==
    IF save.live THEN [g EXCEPT !.mapChange = "restored"]
    ELSE assignMap(g, save.map, "restored")

\* The first branch of regen(): the dungeon that was left comes back.
restoreDungeon(g) ==
    LET save == g.dungeonSave
        back == restoredMap(g, save)
    IN  [back EXCEPT !.dungeonSave = [save EXCEPT !.map = <<>>, !.live = TRUE],
                     !.door = [x |-> save.door.x, y |-> save.door.y, open |-> save.door.open],
                     !.player.x = save.player.x, !.player.y = save.player.y]

\* for (const h of overworldSave.houses) { ...; state.map[h.y][h.x].walkable = h.open; }
houseDoorsOnMap(m, houses) ==
    [y \in 1..Height(m) |-> [x \in 1..Width(m) |->
        LET at == {i \in 1..Len(houses) : houses[i].x = x - 1 /\ houses[i].y = y - 1}
        IN  IF at = {} THEN m[y][x]
            ELSE [m[y][x] EXCEPT !.walkable =
                    houses[CHOOSE i \in at : \A j \in at : j <= i].open]]]

\* The second branch of regen() with a save: the overworld as it was saved.
restoreOverworld(g) ==
    LET save == g.overworldSave
        back == restoredMap(g, save)
        housed == IF save.houses = null THEN back
                  ELSE [back EXCEPT !.houseDoors = save.houses,
                                    !.map = houseDoorsOnMap(@, save.houses)]
    IN  [housed EXCEPT !.overworldSave = [save EXCEPT !.map = <<>>, !.live = TRUE],
                       !.door = [x |-> save.door.x, y |-> save.door.y, open |-> save.door.open],
                       !.player.x = save.player.x, !.player.y = save.player.y]

\* placeEntranceDoorOutside(); placeVillage();
outside(g) == UNION {placeVillage(e) : e \in placeEntranceDoorOutside(g)}

\* The second branch of regen() without a save: makeOverworld() builds any
\* of the lands; the player keeps its coordinates until the door is placed.
firstOverworld(g, lands) ==
    {IF v.door # null THEN [v EXCEPT !.overworldSave = savedOverworld(v, v.houseDoors)] ELSE v :
        v \in UNION {outside(assignMap(g, m, "made")) : m \in lands}}

\* The last branch of regen() outside the dungeon.
regularOverworld(g, lands) ==
    {[v EXCEPT !.overworldSave = savedOverworld(v, null)] :
        v \in UNION {UNION {outside([assignMap(g, m, "made") EXCEPT
                                        !.player.x = c[1], !.player.y = c[2]]) :
                                c \in floorsOf(m)} : m \in lands}}

\* state.map = g.map; state.player.x = g.start.x; state.player.y = g.start.y;
\* and the reset of the player and of the potions when fullReset is set
dungeonMade(g, fullReset, m, c) ==
    [assignMap(g, m, "made") EXCEPT
        !.player.x = c[1], !.player.y = c[2],
        !.player.hp = IF fullReset THEN PlayerHp ELSE @,
        !.player.maxHp = IF fullReset THEN PlayerHp ELSE @,
        !.potion = IF fullReset THEN 0 ELSE @]

\* spawnEnemies(10); placeExitDoor();
dungeonWith(g, spawn, doors) ==
    {[g EXCEPT !.enemies = spawn.enemies, !.rng = spawn.rng, !.door = d] : d \in doors}

dungeonFor(g, m, seed) ==
    dungeonWith(g, spawnEnemies(m, g.player, SpawnCount, setSeed(seed)),
                placeExitDoor(m, g.player))

\* The last branch of regen() in the dungeon: makeDungeon() seeds the stream
\* with the time, builds a level and starts on one of its floors.  levels
\* holds the pairs <<level, seed>> it can come to; the start is any floor.
regularDungeon(g, fullReset, levels) ==
    UNION {UNION {dungeonFor(dungeonMade(g, fullReset, l[1], c), l[1], l[2]) :
                    c \in floorsOf(l[1])} : l \in levels}

\* regen(fullReset) with transitionFlag = flag: the states it can leave.
regen(g0, fullReset, flag, levels, lands) ==
    LET g == [g0 EXCEPT !.door = null, !.items = <<>>, !.enemies = <<>>, !.houseDoors = <<>>]
        dungeonBack == g.world = "dungeon" /\ flag = "toDungeon" /\ g.dungeonSave # null
    IN  {updateFOVAndVisibility(v) : v \in
            IF dungeonBack THEN {restoreDungeon(g)}
            ELSE IF g.world = "overworld" /\ flag = "toOverworld"
                 THEN IF g.overworldSave # null THEN {restoreOverworld(g)}
                      ELSE firstOverworld(g, lands)
            ELSE IF g.world = "dungeon" THEN regularDungeon(g, fullReset, levels)
            ELSE regularOverworld(g, lands)}

\* ------------------------------------------------------ the keydown handler
\* const keyToDelta = { ArrowUp: [0, -1], ArrowDown: [0, 1], ArrowLeft: [-1, 0], ArrowRight: [1, 0], ... }
keyToDelta == {<<0, -1>>, <<0, 1>>, <<-1, 0>>, <<1, 0>>}

\* state.door is there and the player stands on its tile
onDoor(g) ==
    IF g.door = null THEN FALSE ELSE g.player.x = g.door.x /\ g.player.y = g.door.y

\* state.door && state.door.open && the player stands on its tile
onOpenDoor(g) == IF onDoor(g) THEN g.door.open ELSE FALSE

\* state.houseDoors.find(h => h.open && h.x === state.player.x && h.y === state.player.y)
onOpenHouseDoor(g) ==
    \E i \in 1..Len(g.houseDoors) :
        /\ g.houseDoors[i].open
        /\ g.houseDoors[i].x = g.player.x /\ g.houseDoors[i].y = g.player.y

\* playerAttack(enemy) for enemy foe: the states it can leave, each with its
\* result.  randInt draws the damage, Math.random() < 0.3 the potion.
playerAttack(g, foe) ==
    UNION {IF g.enemies[foe].hp - dmg <= 0
           THEN {<<[g EXCEPT !.enemies = removeEnemy(@, foe),
                             !.items = IF drop
                                       THEN Append(@, Pos(g.enemies[foe].x, g.enemies[foe].y))
                                       ELSE @], "killed">> : drop \in BOOLEAN}
           ELSE {<<[g EXCEPT !.enemies[foe].hp = @ - dmg], "hit">>} :
           dmg \in PlayerAtkMin..PlayerAtkMax}

\* moveEnemies() in the game: the states it can leave.
enemiesMoved(g) ==
    {[g EXCEPT !.player = st.player, !.enemies = st.enemies,
               !.gameOver = st.gameOver, !.plans = st.plans] :
        st \in moveEnemies(g.map, g.player, g.enemies, g.gameOver)}

\* The walkable flags and the door flag of the world the player is leaving.
leaving(g) == [layout |-> layout(g.map), open |-> doorCopy(g.door).open]

\* Lines 944-950: through the open door of the dungeon.
leaveDungeon(g, levels, lands) ==
    IF g.world = "dungeon" /\ onOpenDoor(g)
    THEN regen([g EXCEPT !.left.dungeon = leaving(g),
                         !.dungeonSave =
                            [map |-> <<>>, live |-> TRUE,
                             door |-> [x |-> g.door.x, y |-> g.door.y, open |-> TRUE],
                             player |-> Pos(g.player.x, g.player.y)],
                         !.world = "overworld"],
               FALSE, "toOverworld", levels, lands)
    ELSE {g}

\* Lines 951-955: through the open door of the overworld.
enterDungeon(g, levels, lands) ==
    IF g.world = "overworld" /\ onOpenDoor(g)
    THEN regen([g EXCEPT !.left.overworld = leaving(g), !.world = "dungeon"],
               FALSE, "toDungeon", levels, lands)
    ELSE {g}

\* Lines 1000-1007: over the door of the house.
leaveHouse(g, levels, lands) ==
    IF g.world = "house" /\ onDoor(g)
    THEN regen([g EXCEPT !.world = "overworld",
                         !.overworldSave =
                            IF @ # null /\ g.currentHouse # null
                            THEN [@ EXCEPT !.player = g.currentHouse] ELSE @],
               FALSE, "toOverworld", levels, lands)
    ELSE {g}

\* Lines 944-1007, the transitions after a step, one after the other.
transitions(g, levels, lands) ==
    UNION {IF b.world = "overworld" /\ onOpenHouseDoor(b)
           THEN {enterHouse(b)}
           ELSE leaveHouse(b, levels, lands) :
           b \in UNION {enterDungeon(a, levels, lands) : a \in leaveDungeon(g, levels, lands)}}

\* state.player.x = nx; state.player.y = ny; updateFOVAndVisibility();
stepped(g, nx, ny) == updateFOVAndVisibility([g EXCEPT !.player.x = nx, !.player.y = ny])

\* The handler for a direction key (lines 845-856 and 907-1010).  The second
\* updateFOVAndVisibility() of a turn finds the player and the walkable flags
\* as the first one did and leaves the tiles as they are.
keyArrow(g, d, levels, lands) ==
    LET nx == g.player.x + d[1]
        ny == g.player.y + d[2]
        foe == enemyAt(g.enemies, nx, ny)
    IN  IF g.inventoryOpen \/ g.gameOver THEN {g}
        ELSE IF foe # 0
        THEN UNION {enemiesMoved(IF r[2] = "killed" THEN stepped(r[1], nx, ny)
                                 ELSE updateFOVAndVisibility(r[1])) :
                        r \in playerAttack(g, foe)}
        ELSE IF canWalk(g.map, nx, ny)
        THEN UNION {transitions(h, levels, lands) : h \in enemiesMoved(stepped(g, nx, ny))}
        ELSE {g}

\* The index of the first closed house door next to the player, 0 for none.
houseDoorToOpen(g) ==
    LET near == {i \in 1..Len(g.houseDoors) :
                    ~g.houseDoors[i].open /\ nextTo(g.player, g.houseDoors[i])}
    IN  IF near = {} THEN 0 ELSE CHOOSE i \in near : \A j \in near : i <= j

\* The handler for the O key (lines 845-882).
keyO(g) ==
    IF g.inventoryOpen \/ g.gameOver THEN g
    ELSE IF (IF g.door = null THEN FALSE ELSE ~g.door.open /\ nextTo(g.player, g.door))
    THEN updateFOVAndVisibility(
            [g EXCEPT !.door.open = TRUE,
                      !.map = setWalkable(@, {<<g.door.x, g.door.y>>}, TRUE)])
    ELSE IF g.world = "overworld" /\ houseDoorToOpen(g) # 0
    THEN LET i == houseDoorToOpen(g)
         IN  updateFOVAndVisibility(
                [g EXCEPT !.houseDoors[i].open = TRUE,
                          !.map = setWalkable(@, {<<g.houseDoors[i].x, g.houseDoors[i].y>>}, TRUE)])
    ELSE g

\* The index of the first item on the tile of the player, 0 for none.
itemAt(g) ==
    LET at == {i \in 1..Len(g.items) : g.items[i].x = g.player.x /\ g.items[i].y = g.player.y}
    IN  IF at = {} THEN 0 ELSE CHOOSE i \in at : \A j \in at : i <= j

\* The handler for the P key (lines 845-856 and 893-906).
keyP(g) ==
    IF g.inventoryOpen \/ g.gameOver \/ itemAt(g) = 0 THEN g
    ELSE [g EXCEPT !.potion = @ + 1, !.items = removeEnemy(@, itemAt(g))]

\* The handler for the I key (lines 845-856 and 883): toggleInventory().
keyI(g) ==
    IF g.inventoryOpen THEN [g EXCEPT !.inventoryOpen = FALSE]
    ELSE IF g.gameOver THEN g
    ELSE [g EXCEPT !.inventoryOpen = TRUE]

\* useSelectedInventoryItem(): the one entry of the list is the potions.
useSelectedInventoryItem(g) ==
    IF g.potion > 0
    THEN [g EXCEPT !.potion = @ - 1,
                   !.player.hp = IF @ + 5 < g.player.maxHp THEN @ + 5 ELSE g.player.maxHp]
    ELSE g

\* A handler for the Enter key that drinks with the modal closed too.
keyEnterAnytime(g) == useSelectedInventoryItem(g)

\* The handler for the Enter key (lines 845-856): no binding outside the modal.
keyEnter(g) == IF g.inventoryOpen THEN useSelectedInventoryItem(g) ELSE g

\* The handler for the R key (lines 845-861), and regen() at the start.
keyR(g, levels, lands) ==
    IF g.map = <<>> THEN regen(g, FALSE, "none", levels, lands)
    ELSE IF g.inventoryOpen THEN {g}
    ELSE regen([g EXCEPT !.gameOver = FALSE], TRUE, "none", levels, lands)

\* --------------------------------------------------- the dungeon turns, run
\* The program before its first regen(): no map yet.
InitTurn ==
    /\ map = <<>>
    /\ call = NoCall
    /\ agent = NoAgent
    /\ rng \in {setSeed(n) : n \in Seeds}
    /\ draws = 0
    /\ firstGen = NoCall
    /\ NoGame

\* regen() at the start and the R key once the game is over, on the levels
\* of the turn loop.  regen(true) in the dungeon takes nothing from the game
\* it ends, so an R key before the game is over leaves no other states.
Regen ==
    /\ map = <<>> \/ gameOver
    /\ \E g \in keyR(Current, TurnMaps \X Seeds, {}) : Becomes(g, FALSE)
    /\ UNCHANGED <<call, agent, draws, firstGen>>

\* A direction key on the levels of the turn loop; the log of the
\* aStarNextStep calls of moveEnemies() is kept when keep is TRUE.
KeyDownHandler(keep) ==
    /\ map # <<>>
    /\ \E d \in keyToDelta :
        \E g \in keyArrow(Current, d, TurnMaps \X Seeds, {}) : Becomes(g, keep)

\* A direction key.
KeyDown ==
    /\ KeyDownHandler(FALSE)
    /\ UNCHANGED <<call, agent, draws, firstGen>>

SpecTurn == InitTurn /\ [][Regen \/ KeyDown]_vars

\* A direction key, with the log of the planning kept.
KeyDownLogged ==
    /\ KeyDownHandler(TRUE)
    /\ UNCHANGED <<call, agent, draws, firstGen>>

SpecPlan == InitTurn /\ [][Regen \/ KeyDownLogged]_vars

\* The P key.
KeyP ==
    /\ map # <<>>
    /\ Becomes(keyP(Current), FALSE)
    /\ UNCHANGED <<call, agent, draws, firstGen>>

\* The I key.
KeyI ==
    /\ map # <<>>
    /\ Becomes(keyI(Current), FALSE)
    /\ UNCHANGED <<call, agent, draws, firstGen>>

\* The Enter key.
KeyEnter ==
    /\ map # <<>>
    /\ Becomes(keyEnter(Current), FALSE)
    /\ UNCHANGED <<call, agent, draws, firstGen>>

\* The turn loop with the potions.
SpecBrawl == InitTurn /\ [][Regen \/ KeyDown \/ KeyP \/ KeyI \/ KeyEnter]_vars

\* ------------------------------------------------------ the worlds, run
\* The level of the travels: three floors round a corner, the first one next
\* to the boundary.
Cellar == [y \in 1..6 |-> [x \in 1..6 |-> Tile(<<x, y>> \in {<<2, 3>>, <<3, 3>>, <<3, 4>>})]]
TravelLevels == {<<Cellar, SampleSeed>>}

\* The land of the travels: three tiles of grass in water.
Islet == [y \in 1..6 |-> [x \in 1..6 |-> Tile(<<x, y>> \in {<<2, 2>>, <<3, 2>>, <<2, 3>>})]]

\* regen() at the start and the R key later, pressed in the dungeon.
Restart ==
    /\ map = <<>> \/ world = "dungeon"
    /\ \E g \in keyR(Current, TravelLevels, {Islet}) : Becomes(g, FALSE)
    /\ UNCHANGED <<call, agent, draws, firstGen>>

\* A direction key.
Walk ==
    /\ map # <<>>
    /\ \E d \in keyToDelta :
        \E g \in keyArrow(Current, d, TravelLevels, {Islet}) : Becomes(g, FALSE)
    /\ UNCHANGED <<call, agent, draws, firstGen>>

\* The O key.
KeyO ==
    /\ map # <<>>
    /\ Becomes(keyO(Current), FALSE)
    /\ UNCHANGED <<call, agent, draws, firstGen>>

SpecTravel == InitTurn /\ [][Restart \/ Walk \/ KeyO]_vars

\* ------------------------------------------------------ the village, run
\* The land of the village: a meadow, all of it grass, as wide and as high as
\* the village with its 5 by 5 tiles needs it.
Meadow == [y \in 1..6 |-> [x \in 1..6 |-> Tile(TRUE)]]

\* regen() at the start and the R key later, pressed in the dungeon.
RestartBelowMeadow ==
    /\ map = <<>> \/ world = "dungeon"
    /\ \E g \in keyR(Current, TravelLevels, {Meadow}) : Becomes(g, FALSE)
    /\ UNCHANGED <<call, agent, draws, firstGen>>

\* A direction key.
WalkToMeadow ==
    /\ map # <<>>
    /\ \E d \in keyToDelta :
        \E g \in keyArrow(Current, d, TravelLevels, {Meadow}) : Becomes(g, FALSE)
    /\ UNCHANGED <<call, agent, draws, firstGen>>

\* The O key, pressed in the dungeon.
KeyOInDungeon ==
    /\ map # <<>>
    /\ world = "dungeon"
    /\ Becomes(keyO(Current), FALSE)
    /\ UNCHANGED <<call, agent, draws, firstGen>>

SpecVillage == InitTurn /\ [][RestartBelowMeadow \/ WalkToMeadow \/ KeyOInDungeon]_vars

\* ------------------------------------------------------ placeExitDoor, run
\* The maps placeExitDoor is called on have two rows and two columns at
\* least: it reads state.map[1] and state.map[y][1].
DoorMaps == {m \in AllMaps : Width(m) >= 2 /\ Height(m) >= 2}

\* A dungeon with the player on any of its cells, before the door is placed.
InitDoor ==
    /\ map \in DoorMaps
    /\ call = NoCall
    /\ agent = NoAgent
    /\ rng = NoRng
    /\ draws = 0
    /\ firstGen = NoCall
    /\ player \in {[x |-> c[1], y |-> c[2], hp |-> PlayerHp, maxHp |-> PlayerHp] :
                      c \in (0..(Width(map) - 1)) \X (0..(Height(map) - 1))}
    /\ enemies = <<>>
    /\ gameOver = FALSE
    /\ plans = <<>>
    /\ world = "dungeon"
    /\ door = null
    /\ houseDoors = <<>>
    /\ currentHouse = null
    /\ dungeonSave = null
    /\ overworldSave = null
    /\ items = <<>>
    /\ potion = 0
    /\ inventoryOpen = FALSE
    /\ mapChange = "made"
    /\ left = [dungeon |-> null, overworld |-> null]

\* placeExitDoor()
CallPlaceExitDoor ==
    /\ call = NoCall
    /\ call' = [op |-> "placeExitDoor"]
    /\ door' \in placeExitDoor(map, player)
    /\ UNCHANGED <<map, agent, rng, draws, firstGen, player, enemies, gameOver, plans,
                   world, houseDoors, currentHouse, dungeonSave, overworldSave,
                   items, potion, inventoryOpen, mapChange, left>>

SpecDoor == InitDoor /\ [][CallPlaceExitDoor]_vars


\* ============================================================ the properties
\* What the properties compare the code with: chains of 4-adjacent cells.
Abs(n) == IF n >= 0 THEN n ELSE -n

Adjacent4(c, d) == Abs(c[1] - d[1]) + Abs(c[2] - d[2]) = 1

Cells(m) == (0..(Width(m) - 1)) \X (0..(Height(m) - 1))

WalkableCells(m) == {c \in Cells(m) : TileAt(m, c[1], c[2]).walkable}

PassableCells(m, blocks) == {c \in WalkableCells(m) : key(c[1], c[2]) \notin blocks}

\* The cells joined to a cell of S by a chain of 4-adjacent cells of G.
RECURSIVE Joined(_, _)
Joined(S, G) ==
    LET N == S \cup {c \in G : \E d \in S : Adjacent4(c, d)}
    IN  IF N = S THEN S ELSE Joined(N, G)

\* The number of steps of a shortest chain of 4-adjacent cells of G from a cell
\* of S to cell b, counted from d; -1 when there is none.
RECURSIVE StepsFrom(_, _, _, _)
StepsFrom(S, G, b, d) ==
    IF b \in S THEN d
    ELSE LET N == S \cup {c \in G : \E e \in S : Adjacent4(c, e)}
         IN  IF N = S THEN -1 ELSE StepsFrom(N, G, b, d + 1)

Steps(G, a, b) == IF a \in G /\ b \in G THEN StepsFrom({a}, G, b, 0) ELSE -1

Cell(p) == <<p.x, p.y>>

\* C3: reachableFrom(map, x, y) is empty when (x, y) is out of bounds or not
\* walkable, and otherwise is exactly the set of the cells joined to (x, y) by
\* a chain of 4-directional steps through walkable cells, (x, y) included.
C3_ReachableExact ==
    call.op = "reachableFrom" =>
        call.result =
            IF <<call.x, call.y>> \in WalkableCells(map)
            THEN {key(c[1], c[2]) : c \in Joined({<<call.x, call.y>>}, WalkableCells(map))}
            ELSE {}

\* A call from a walkable origin that finds several cells and leaves a
\* walkable cell out, because no chain leads to it.
C3_Witness ==
    /\ call.op = "reachableFrom"
    /\ canWalk(map, call.x, call.y)
    /\ Cardinality(call.result) >= 4
    /\ \E c \in WalkableCells(map) : key(c[1], c[2]) \notin call.result

\* C4 as claimed: aStarNextStep returns none whenever no chain of 4-adjacent
\* passable cells leads from `from` to `to`, `to` itself having to be passable.
C4_NoneWithoutPassablePath ==
    call.op = "aStarNextStep" =>
        (Steps(PassableCells(map, call.blocks), Cell(call.from), Cell(call.to)) = -1
            => call.result = null)

\* C4 as amended: aStarNextStep returns none whenever no chain of 4-adjacent
\* cells leads from `from` to `to` in which every cell other than `to` is passable.
C4_NoneWithoutPathToTarget ==
    call.op = "aStarNextStep" =>
        (Steps(PassableCells(map, call.blocks) \cup {Cell(call.to)},
               Cell(call.from), Cell(call.to)) = -1
            => call.result = null)

\* A call that returns none although both ends are passable: a wall or a
\* blocked cell cuts every chain.
C4_Witness ==
    /\ call.op = "aStarNextStep"
    /\ call.result = null
    /\ call.from # call.to
    /\ passable(map, call.blocks, call.from.x, call.from.y)
    /\ passable(map, call.blocks, call.to.x, call.to.y)
    /\ call.blocks # {}

\* C5: for a walkable in-bounds position p, aStarNextStep(map, p, p, {}) is none.
C5_NoneAtDestination ==
    (/\ call.op = "aStarNextStep"
     /\ call.from = call.to
     /\ call.blocks = {}
     /\ canWalk(map, call.from.x, call.from.y)) => call.result = null

C5_Witness ==
    /\ call.op = "aStarNextStep"
    /\ call.from = call.to
    /\ call.blocks = {}
    /\ canWalk(map, call.from.x, call.from.y)
    /\ call.result = null
    /\ Cardinality(WalkableCells(map)) >= 3

\* C7 as claimed: a position aStarNextStep returns is 4-adjacent to `from` and
\* is passable: in bounds, walkable and not in blocked.
C7_StepAdjacentAndPassable ==
    (call.op = "aStarNextStep" /\ call.result # null) =>
        /\ Adjacent4(Cell(call.result), Cell(call.from))
        /\ Cell(call.result) \in PassableCells(map, call.blocks)

\* C7 as amended: a position aStarNextStep returns is 4-adjacent to `from` and
\* is either `to` itself or a passable cell.
C7_StepAdjacentAndPassableOrTarget ==
    (call.op = "aStarNextStep" /\ call.result # null) =>
        /\ Adjacent4(Cell(call.result), Cell(call.from))
        /\ \/ call.result = call.to
           \/ Cell(call.result) \in PassableCells(map, call.blocks)

\* A returned step that is not the target, on a map where a neighbour of
\* `from` is blocked.
C7_Witness ==
    /\ call.op = "aStarNextStep"
    /\ call.result # null
    /\ call.result # call.to
    /\ \E c \in WalkableCells(map) :
          /\ Adjacent4(c, Cell(call.from))
          /\ key(c[1], c[2]) \in call.blocks

\* C8 as claimed: a returned step s lies on a shortest passable path: in the
\* graph of the passable cells `to` is one step nearer to s than to `from`.
C8_StepOnShortestPassablePath ==
    (call.op = "aStarNextStep" /\ call.result # null) =>
        LET G == PassableCells(map, call.blocks)
        IN  /\ Steps(G, Cell(call.from), Cell(call.to)) >= 1
            /\ Steps(G, Cell(call.result), Cell(call.to))
                   = Steps(G, Cell(call.from), Cell(call.to)) - 1

\* C8 as amended: a returned step s lies on a shortest path through passable
\* cells to `to`: in the graph of the passable cells and `to`, `to` is one
\* step nearer to s than to `from`.
C8_StepOnShortestPathToTarget ==
    (call.op = "aStarNextStep" /\ call.result # null) =>
        LET G == PassableCells(map, call.blocks) \cup {Cell(call.to)}
        IN  /\ Steps(G, Cell(call.from), Cell(call.to)) >= 1
            /\ Steps(G, Cell(call.result), Cell(call.to))
                   = Steps(G, Cell(call.from), Cell(call.to)) - 1

\* A step on a path that has to go round an obstacle: the shortest path is
\* longer than the Manhattan distance.
C8_Witness ==
    /\ call.op = "aStarNextStep"
    /\ call.result # null
    /\ Steps(PassableCells(map, call.blocks), Cell(call.from), Cell(call.to))
           > astarDistance(call.from.x, call.from.y, call.to.x, call.to.y)

\* C6: on a fixed map with a fixed block set, when a passable path from the
\* agent's start to `to` exists, an agent that moves to each returned step is,
\* after k calls, on a walkable cell exactly k steps nearer to `to` than its
\* start, so it stands on `to` after exactly the shortest-path length many
\* calls; the call made there returns none and every earlier one a step.
C6_WalkReachesTarget ==
    LET G == PassableCells(map, call.blocks)
        total == Steps(G, Cell(agent.start), Cell(call.to))
    IN  (call.op = "aStarNextStep" /\ total >= 0) =>
            /\ Steps(G, Cell(call.from), Cell(call.to)) = total - agent.steps
            /\ canWalk(map, call.from.x, call.from.y)
            /\ (call.result = null) <=> (call.from = call.to)

\* The agent has arrived after a walk of at least four steps round an obstacle.
C6_Witness ==
    /\ call.op = "aStarNextStep"
    /\ agent.steps >= 4
    /\ call.from = call.to
    /\ call.result = null
    /\ agent.steps > astarDistance(agent.start.x, agent.start.y, call.to.x, call.to.y)
    /\ Steps(PassableCells(map, call.blocks), Cell(agent.start), Cell(call.to)) = agent.steps

\* C1: for every width > 0, height > 0 and seed, generateDungeon returns a
\* start that is in bounds and whose tile in the returned map is walkable.
C1_StartInBoundsAndWalkable ==
    (call.op = "generateDungeon" /\ call.w > 0 /\ call.h > 0) =>
        /\ ~call.thrown
        /\ inBounds(call.w, call.h, call.start.x, call.start.y)
        /\ canWalk(call.map, call.start.x, call.start.y)

\* Two calls have the same outcome: both threw or neither, the same walkable
\* layout cell by cell, and the same start.
SameOutcome(a, b) ==
    /\ a.thrown = b.thrown
    /\ a.start = b.start
    /\ Len(a.map) = Len(b.map)
    /\ \A y \in 1..Len(a.map) :
          /\ Len(a.map[y]) = Len(b.map[y])
          /\ \A x \in 1..Len(a.map[y]) : a.map[y][x].walkable = b.map[y][x].walkable

SameArguments(a, b) == a.w = b.w /\ a.h = b.h /\ a.seed = b.seed

C9_VisibleInBounds ==
    call.op = "computeVisible" =>
        call.result \subseteq {key(c[1], c[2]) : c \in Cells(map)}

\* A query from a walkable border cell with a radius larger than the map: the
\* sweep reports cells beyond the edge, and the result has cells of the map.
C9_Witness ==
    /\ call.op = "computeVisible"
    /\ call.radius > Width(map) + Height(map) - 2
    /\ canWalk(map, call.x, call.y)
    /\ Cardinality(call.result) >= 3
    /\ LET swept == fovCompute(map, call.x, call.y, call.radius)
       IN  \E n \in 1..Len(swept) :
              ~inBounds(Width(map), Height(map), swept[n][1], swept[n][2])

\* C10: for every map, in-bounds origin and radius >= 0, the set computeVisible
\* returns contains the origin.
C10_VisibleHasOrigin ==
    (call.op = "computeVisible" /\ inBounds(Width(map), Height(map), call.x, call.y)) =>
        key(call.x, call.y) \in call.result

\* A query from a tile that lets no light pass, and one with radius 0: the
\* result is the origin alone.
C10_Witness ==
    /\ call.op = "computeVisible"
    /\ inBounds(Width(map), Height(map), call.x, call.y)
    /\ ~canWalk(map, call.x, call.y)
    /\ call.radius >= 1
    /\ call.result = {key(call.x, call.y)}
    /\ Cardinality(WalkableCells(map)) >= 2


\* C11: canWalk(map, x, y) is false for every (x, y) out of bounds, negative
\* coordinates and maps without cells included, and is map[y][x].walkable for
\* every (x, y) in bounds.
C11_CanWalkIsTheTile ==
    call.op = "canWalk" =>
        call.result =
            IF call.y + 1 \in DOMAIN map /\ call.x + 1 \in DOMAIN map[call.y + 1]
            THEN map[call.y + 1][call.x + 1].walkable
            ELSE FALSE

\* canWalk is asked about a cell with a negative coordinate, next to a
\* walkable cell of the map, and says no.
C11_Witness ==
    /\ call.op = "canWalk"
    /\ call.x = -1
    /\ Width(map) > 0
    /\ call.y \in 0..(Height(map) - 1)
    /\ map[call.y + 1][1].walkable
    /\ call.result = FALSE


\* The candidate pool of a sampleFloors call, as the set of cells the claims
\* describe: walkable, not excluded and, when from is given and minManhattan
\* is positive, at Manhattan distance minManhattan or more from `from`.
Candidates(m, c) ==
    {p \in WalkableCells(m) :
        /\ key(p[1], p[2]) \notin c.exclude
        /\ (c.from # <<>> /\ c.minManhattan > 0) =>
               Abs(p[1] - c.from[1].x) + Abs(p[2] - c.from[1].y) >= c.minManhattan}

\* C12: sampleFloors returns exactly min(count, P) positions, P being the
\* size of the candidate pool; a pool smaller than count gives a shorter list.
C12_SampleSize ==
    call.op = "sampleFloors" =>
        LET P == Cardinality(Candidates(map, call))
        IN  Len(call.result) = IF call.count < P THEN call.count ELSE P

\* A call that asks for more positions than the pool holds, the pool being
\* cut down by the exclusion and by the distance from `from`.
C12_Witness ==
    /\ call.op = "sampleFloors"
    /\ call.from # <<>>
    /\ call.minManhattan >= 2
    /\ call.exclude # {}
    /\ Cardinality(Candidates(map, call)) = 2
    /\ Cardinality(WalkableCells(map)) >= 5
    /\ call.count = 3
    /\ Len(call.result) = 2

\* C13: every position sampleFloors returns is a walkable cell, not excluded,
\* far enough from `from` when that is asked, and no position is returned twice.
C13_SampleFromPoolWithoutRepeats ==
    call.op = "sampleFloors" =>
        /\ \A i \in 1..Len(call.result) : Cell(call.result[i]) \in Candidates(map, call)
        /\ \A i, j \in 1..Len(call.result) : call.result[i] = call.result[j] => i = j

\* A call that returns three positions out of a pool of more, with cells
\* left out by the exclusion and by the distance.
C13_Witness ==
    /\ call.op = "sampleFloors"
    /\ call.from # <<>>
    /\ call.minManhattan >= 1
    /\ call.exclude # {}
    /\ Len(call.result) = 3
    /\ Cardinality(Candidates(map, call)) > 3
    /\ Cardinality(Candidates(map, call)) < Cardinality(WalkableCells(map)) - 1


\* C14: for every width > 0, height > 0 and seed, the map generateOverworld
\* returns has at least 0.15 * width * height walkable cells, whatever the
\* automaton left before the correction step.
C14_OverworldOpenSpace ==
    call.op = "generateOverworld" =>
        Cardinality(WalkableCells(call.map)) * 100 >= call.w * call.h * 15

\* The automaton left fewer open cells than 0.15 of the map, one at least,
\* and the returned map is its inverse.
C14_Witness ==
    /\ call.op = "generateOverworld"
    /\ call.w * call.h >= 9
    /\ WalkableCells(call.before) # {}
    /\ Cardinality(WalkableCells(call.before)) * 100 < call.w * call.h * 15
    /\ WalkableCells(call.map) = Cells(call.map) \ WalkableCells(call.before)

\* C15: for every width > 0, height > 0 and seed, generateOverworld returns a
\* start that is in bounds and walkable in the returned map.
C15_OverworldStart ==
    call.op = "generateOverworld" =>
        /\ Cell(call.start) \in Cells(call.map)
        /\ Cell(call.start) \in WalkableCells(call.map)

\* A start on a map that was inverted, on a cell the automaton had left
\* closed, and not the cell (1, 1) although that cell is in the map.
C15_Witness ==
    /\ call.op = "generateOverworld"
    /\ call.before # call.map
    /\ call.w >= 2 /\ call.h >= 2
    /\ call.start # Pos(1, 1)
    /\ ~canWalk(call.before, call.start.x, call.start.y)
    /\ canWalk(call.map, call.start.x, call.start.y)


\* C16: generateDungeon and generateOverworld called with width <= 0 or
\* height <= 0 fail with an error and return no map.
C16_BadSizeFails ==
    (/\ call.op \in {"generateDungeon", "generateOverworld"}
     /\ (call.w <= 0 \/ call.h <= 0)) => call.thrown


\* C17: for every width > 0 and height > 0, generateDungeon returns a map of
\* exactly height rows, every row of exactly width tiles.
C17_DungeonHasSize ==
    (call.op = "generateDungeon" /\ call.w > 0 /\ call.h > 0) =>
        /\ ~call.thrown
        /\ Len(call.map) = call.h
        /\ \A y \in 1..Len(call.map) : Len(call.map[y]) = call.w

\* C18: after any sequence of turns in the dungeon (spawn, player moves and
\* attacks, enemy moves, attacks and random nudges) no two enemies stand on
\* the same tile and no enemy stands on the tile of the player.
C18_NoTwoOnOneTile ==
    /\ \A i, j \in 1..Len(enemies) :
          i # j => ~(enemies[i].x = enemies[j].x /\ enemies[i].y = enemies[j].y)
    /\ \A i \in 1..Len(enemies) : ~(enemies[i].x = player.x /\ enemies[i].y = player.y)

\* Two enemies, one hurt by the player, have had their turn and hurt the player.
C18_Witness ==
    /\ Len(enemies) = 2
    /\ ~gameOver
    /\ player.hp < PlayerHp
    /\ \E i \in 1..2 : enemies[i].hp < SlimeHp

\* C19: within one moveEnemies turn, at every call of aStarNextStep for an
\* enemy the block set does not hold that enemy's own position and holds
\* exactly the positions, at that moment, of all the other enemies (the new
\* ones of those that moved already, the old ones of the others) and the
\* position of the player.
C19_BlocksAreTheOthersAndThePlayer ==
    \A k \in 1..Len(plans) :
        /\ key(plans[k].from.x, plans[k].from.y) \notin plans[k].blocks
        /\ plans[k].blocks =
              {key(plans[k].enemies[j].x, plans[k].enemies[j].y) :
                  j \in (1..Len(plans[k].enemies)) \ {plans[k].enemy}}
              \cup {key(plans[k].player.x, plans[k].player.y)}

\* Both enemies planned, and the second one planned around the tile the first
\* one had just moved to.
C19_Witness ==
    /\ Len(plans) = 2
    /\ plans[1].enemy = 1 /\ plans[2].enemy = 2
    /\ Pos(plans[2].enemies[1].x, plans[2].enemies[1].y) # plans[1].from
    /\ key(plans[2].enemies[1].x, plans[2].enemies[1].y) \in plans[2].blocks
    /\ key(plans[1].enemies[2].x, plans[1].enemies[2].y) \in plans[1].blocks

NearerThanStart ==
    {c \in WalkableCells(call.map) :
        Abs(c[1] - (call.w \div 2)) + Abs(c[2] - (call.h \div 2))
          < Abs(call.start.x - (call.w \div 2)) + Abs(call.start.y - (call.h \div 2))}

\* C23: when the corrected overworld map has n >= 1 walkable cells, the start
\* of generateOverworld is a walkable cell and fewer than min(200, n) walkable
\* cells are strictly nearer to the centre than it.
C23_StartAmongTheNearest ==
    (/\ call.op = "generateOverworld"
     /\ call.w > 0 /\ call.h > 0
     /\ WalkableCells(call.map) # {})
    => /\ Cell(call.start) \in WalkableCells(call.map)
       /\ \E n \in {Cardinality(WalkableCells(call.map))} :
             Cardinality(NearerThanStart) < (IF n < 200 THEN n ELSE 200)

\* More than 200 open cells, and a start that is not one of the nearest.
C23_Witness ==
    /\ call.op = "generateOverworld"
    /\ Cardinality(WalkableCells(call.map)) > 200
    /\ Cardinality(NearerThanStart) > 100

\* C24: after every updateFOVAndVisibility() the visible flag of a tile is
\* TRUE exactly when computeVisible(map, player, radius of the world) holds
\* its key or it is the tile of the player; no flag of an earlier position
\* is left standing.
C24_VisibleIsTheFieldOfView ==
    map # <<>> =>
        \A y \in 1..Height(map), x \in 1..Width(map) :
            map[y][x].visible <=>
                key(x - 1, y - 1) \in
                    computeVisible(map, player.x, player.y, fovRadius(world))
                        \cup {key(player.x, player.y)}

\* The player has stepped on the same map, and a tile that an earlier update
\* had marked is out of sight now.
C24_Witness ==
    /\ map # <<>>
    /\ mapChange = "kept"
    /\ \E y \in 1..Height(map), x \in 1..Width(map) :
          map[y][x].explored /\ ~map[y][x].visible
    /\ \E y \in 1..Height(map), x \in 1..Width(map) :
          map[y][x].visible /\ ~(x - 1 = player.x /\ y - 1 = player.y)

\* The tiles of a map with the explored flag.
Explored(m) ==
    {<<x, y>> \in (1..Width(m)) \X (1..Height(m)) : m[y][x].explored}

\* The map the step restores, as it is before the step: the saved dungeon
\* when the step ends in the dungeon, the saved overworld otherwise.
MapToRestore ==
    IF world' = "dungeon" THEN savedMap(Current, dungeonSave)
    ELSE savedMap(Current, overworldSave)

\* C25: for a given map the explored flag of a tile never goes from TRUE to
\* FALSE, over the turns, the door openings and the visibility updates, also
\* while the map is saved and another world is played; and a visible tile is
\* explored.
C25_ExploredStays ==
    /\ [](map # <<>> =>
            \A y \in 1..Height(map), x \in 1..Width(map) :
                map[y][x].visible => map[y][x].explored)
    /\ [][/\ mapChange' = "kept" => Explored(map) \subseteq Explored(map')
          /\ mapChange' = "restored" => Explored(MapToRestore) \subseteq Explored(map')]_vars

\* The dungeon is back from its save, with tiles explored before the player
\* left that are out of sight from the door.
C25_Witness ==
    /\ mapChange = "restored"
    /\ world = "dungeon"
    /\ \E y \in 1..Height(map), x \in 1..Width(map) :
          map[y][x].explored /\ ~map[y][x].visible

\* The cells next to a boundary cell on the side of the inside: below the
\* top row, above the bottom row, right of the left column, left of the right
\* column.
InnerNeighbours(m, d) ==
    (IF d.y = 0 THEN {<<d.x, 1>>} ELSE {})
        \cup (IF d.y = Height(m) - 1 THEN {<<d.x, Height(m) - 2>>} ELSE {})
        \cup (IF d.x = 0 THEN {<<1, d.y>>} ELSE {})
        \cup (IF d.x = Width(m) - 1 THEN {<<Width(m) - 2, d.y>>} ELSE {})

\* The cells joined to the tile of the player by a chain of walkable cells.
InReachOfPlayer ==
    Joined({<<player.x, player.y>>} \cap WalkableCells(map), WalkableCells(map))

\* C26: whenever placeExitDoor places the exit door, the door is on a boundary
\* cell that is not walkable, and the neighbour of that cell towards the
\* inside is walkable and joined to the tile of the player by a chain of
\* walkable cells.
C26_ExitDoorInReach ==
    (call.op = "placeExitDoor" /\ door # null) =>
        /\ <<door.x, door.y>> \in Cells(map)
        /\ InnerNeighbours(map, door) # {}
        /\ ~TileAt(map, door.x, door.y).walkable
        /\ ~door.open
        /\ \E c \in InnerNeighbours(map, door) :
              c \in InReachOfPlayer

\* A door placed beside a floor in reach, on a map with another floor next to
\* the boundary that is out of reach of the player.
C26_Witness ==
    /\ call.op = "placeExitDoor"
    /\ door # null
    /\ \E c \in WalkableCells(map) :
          /\ c \notin InReachOfPlayer
          /\ \E b \in Cells(map) : ~TileAt(map, b[1], b[2]).walkable /\ c \in InnerNeighbours(map, [x |-> b[1], y |-> b[2]])

\* C27 as claimed: once the overworld is set up, the entrance door and every
\* house door has a 4-adjacent walkable cell that is joined to the tile of the
\* player by a chain of walkable cells of the map as it then stands.
C27_DoorsInReach ==
    (world = "overworld" /\ mapChange = "made") =>
        /\ door # null =>
              \E c \in InReachOfPlayer : Adjacent4(c, <<door.x, door.y>>)
        /\ \A i \in 1..Len(houseDoors) :
              \E c \in InReachOfPlayer : Adjacent4(c, <<houseDoors[i].x, houseDoors[i].y>>)

\* C29 as claimed: once a map is there, the player stands in bounds on a
\* walkable tile.
C29_PlayerOnWalkableTile ==
    map # <<>> => <<player.x, player.y>> \in WalkableCells(map)

\* C28 as claimed: a step that brings the player from the dungeon to an
\* overworld it has left before, or from the overworld to a dungeon it has
\* left before, restores the map that was left: no map is made, and the
\* walkable flags and the open flag of the door are those of the moment the
\* player left.
C28_RoundTrip ==
    [][(/\ {world, world'} = {"dungeon", "overworld"}
        /\ left[world'] # null)
        => /\ mapChange' = "restored"
           /\ layout(map') = left[world'].layout
           /\ door' # null
           /\ door'.open = left[world'].open]_vars

\* C30: the hit points of the player are from 0 to maxHp, and the game is
\* over exactly when they are 0; while the game is over, a key that leaves
\* it over leaves the player, the enemies and the map as they are; the R
\* key, the one that makes a new map, leaves the game not over and the
\* player with 1 hit point at least.
C30_GameOverIsNoHitPoints ==
    /\ [](/\ player.hp >= 0 /\ player.hp <= player.maxHp
          /\ gameOver <=> player.hp = 0)
    /\ [][/\ (gameOver /\ gameOver') =>
                (player' = player /\ enemies' = enemies /\ map' = map)
          /\ (gameOver /\ ~gameOver') => mapChange' = "made"
          /\ mapChange' = "made" => (~gameOver' /\ player'.hp >= 1)]_vars

\* The game is over with a potion in the inventory: the player has killed an
\* enemy, picked up what it dropped and was killed by another.
C30_Witness == gameOver /\ potion > 0 /\ player.hp = 0 /\ enemies # <<>>

====
